---- MODULE Spec2Model ----
(***************************************************************************)
(* objinsync: incremental mirror of a remote object-store prefix onto a    *)
(* local directory.  The module models pkg/sync (Puller, listAndPruneDir)  *)
(* and the pull loop of main.go.                                           *)
(*                                                                         *)
(* Paths and object keys are sequences of "/"-separated components, so     *)
(* "home/d/a" is <<"home","d","a">>, the directory marker "home/" is       *)
(* <<"home","">> and "home//a" is <<"home","","a">>.                       *)
(***************************************************************************)
EXTENDS Integers, Sequences, FiniteSets, TLC

None == "none"

(***************************************************************************)
(* Bounds of the model.                                                    *)
(***************************************************************************)
MaxWorkers == 2
MaxCycles == 2
MaxFaults == 1

(***************************************************************************)
(* Program constants.                                                      *)
(***************************************************************************)
TaskQueueCap == 30
ErrQueueCap == 30

\* the capacity the two queues are scaled down to where a full queue is wanted
MaxQueued == 1

(***************************************************************************)
(* path/filepath                                                           *)
(***************************************************************************)
Last(s) == s[Len(s)]

Front(s) == SubSeq(s, 1, Len(s) - 1)

RECURSIVE CleanAcc(_, _)
\* filepath.Clean on a relative path: drops "" and "." components and
\* resolves ".." against the components kept so far.
CleanAcc(segs, acc) ==
    IF segs = <<>> THEN acc
    ELSE LET h == Head(segs)
             t == Tail(segs)
         IN  IF h = "" \/ h = "." THEN CleanAcc(t, acc)
             ELSE IF h = ".." /\ acc # <<>> /\ Last(acc) # ".."
                  THEN CleanAcc(t, Front(acc))
                  ELSE CleanAcc(t, Append(acc, h))

Clean(segs) ==
    LET c == CleanAcc(segs, <<>>)
    IN  IF c = <<>> THEN <<".">> ELSE c

\* a path that starts with the separator splits into a first component ""
IsSlashed(segs) == Len(segs) > 1 /\ segs[1] = ""

RECURSIVE CommonLen(_, _)
CommonLen(b, t) ==
    IF b = <<>> \/ t = <<>> \/ Head(b) # Head(t) THEN 0
    ELSE 1 + CommonLen(Tail(b), Tail(t))

\* filepath.Rel(basepath, targpath): [ok, path]
Rel(basepath, targpath) ==
    LET base0 == Clean(basepath)
        targ  == Clean(targpath)
        base  == IF base0 = <<".">> THEN <<>> ELSE base0
        n     == CommonLen(base, targ)
        bRest == SubSeq(base, n + 1, Len(base))
        tRest == SubSeq(targ, n + 1, Len(targ))
    IN  IF targ = base0 THEN [ok |-> TRUE, path |-> <<".">>]
        ELSE IF IsSlashed(basepath) # IsSlashed(targpath)
             THEN [ok |-> FALSE, path |-> <<>>]
        ELSE IF bRest # <<>> /\ Head(bRest) = ".."
             THEN [ok |-> FALSE, path |-> <<>>]
        ELSE IF bRest # <<>>
             THEN [ok |-> TRUE, path |-> [i \in 1..Len(bRest) |-> ".."] \o tRest]
        ELSE [ok |-> TRUE, path |-> tRest]

\* filepath.Join(dir, rel)
Join(dir, rel) == Clean(dir \o rel)

\* filepath.Dir(path)
Dir(path) == IF Len(path) <= 1 THEN <<".">> ELSE Front(path)

\* strings.HasSuffix(key, "/")
HasSlashSuffix(key) == Len(key) > 1 /\ Last(key) = ""

IsUnder(dir, path) == Len(path) > Len(dir) /\ SubSeq(path, 1, Len(dir)) = dir

(***************************************************************************)
(* doublestar.Match, on the components of pattern and name                 *)
(***************************************************************************)
matchComponent(p, n) ==
    IF p = "" /\ n = "" THEN TRUE
    ELSE IF p = "" THEN FALSE
    ELSE IF n = "" /\ p # "*" THEN FALSE
    ELSE IF p = "*" THEN TRUE
    ELSE p = n

RECURSIVE doMatching(_, _)
doMatching(pat, name) ==
    IF pat = <<>> /\ name = <<>> THEN TRUE
    ELSE IF pat = <<>> \/ name = <<>> THEN FALSE
    ELSE IF Head(pat) = "**"
         THEN IF Len(pat) = 1 THEN TRUE
              ELSE \E i \in 1..Len(name) :
                      doMatching(Tail(pat), SubSeq(name, i, Len(name)))
    ELSE matchComponent(Head(pat), Head(name))
         /\ doMatching(Tail(pat), Tail(name))

Match(pattern, name) == doMatching(pattern, name)

isPathExcludedNever(exclude, path) == FALSE

\* Puller.isPathExcluded, and the same loop in listAndPruneDir
isPathExcluded(exclude, path) ==
    \E i \in 1..Len(exclude) : Match(exclude[i], path)

(***************************************************************************)
(* Configuration of the run and the universe the environment draws from    *)
(***************************************************************************)
LocalDir == <<"root">>

bucket == "bucket"

\* RemoteUri "s3://bucket/home" in components
RemoteUri == <<"s3:", "", bucket, "home">>

\* "s3://bucket": a uri without a key, which parseObjectUri rejects
BadRemoteUri == <<"s3:", "", bucket>>

\* "s3:/bucket/home": a uri without "//", which parseObjectUri rejects
NoAuthorityUri == <<"s3:", bucket, "home">>

\* the values of the remote uri argument
RemoteUris == {RemoteUri, BadRemoteUri, NoAuthorityUri}

KeyPrefix == <<"home">>

KeyMarker == <<"home", "">>

KeyDupA == <<"home", "", "a">>

KeyA == <<"home", "a">>

KeyDA == <<"home", "d", "a">>

\* "homework/a": the string "home" is a prefix of the key, the path is not
KeySibling == <<"homework", "a">>

\* every key of the model, in the (lexicographic) order ListObjectsV2 returns them
KeyOrder == <<KeyPrefix, KeyMarker, KeyDupA, KeyA, KeyDA, KeySibling>>

AllKeys == {KeyOrder[i] : i \in 1..Len(KeyOrder)}

\* object identities: S3's ETag of an object is the quoted hex MD5 of its body
ETag1 == "\"h1\""

ETag2 == "\"h2\""

ETags == {ETag1, ETag2}

\* file bodies: the complete bodies of the objects ("b1", "b2"), content that
\* is no object's body ("old"), and a truncated or partial body ("part")
Contents == {"b1", "b2", "old", "part"}

\* hex.EncodeToString(h.Sum(nil)) of a body
Md5Hex(body) ==
    CASE body = "b1" -> "h1"
      [] body = "b2" -> "h2"
      [] body = "old" -> "h0"
      [] body = "part" -> "hp"

\* uidFromLocalPath: fmt.Sprintf("\"%s\"", uid)
Md5Quoted(body) == "\"" \o Md5Hex(body) \o "\""

\* the body of the object that has the identity
ObjectBody(etag) == CHOOSE b \in Contents : Md5Quoted(b) = etag

FileA == <<"root", "a">>

DirD == <<"root", "d">>

FileDA == <<"root", "d", "a">>

DirDE == <<"root", "d", "e">>

FileDEA == <<"root", "d", "e", "a">>

\* filepath.Join(LocalDir, "../homework/a") and its directory
DirOut == <<"homework">>

FileOut == <<"homework", "a">>

\* the paths regular files can be at
LocalPaths == {FileA, FileDA, FileDEA, FileOut}

\* the paths directories can be at
DirPaths == {LocalDir, DirD, DirDE, DirOut}

\* Puller.workingDir, set by NewPuller
workingDir == Join(LocalDir, <<".objinsync">>)

\* the temp file is named after the last component of LocalPath
tmpfileNameBase(localPath) == Last(localPath)

\* fmt.Sprintf("%x", md5.Sum([]byte(task.LocalPath))): one name for each path
tmpfileName(localPath) ==
    CASE localPath = FileA -> "0a"
      [] localPath = FileDA -> "1d"
      [] localPath = FileDEA -> "2e"
      [] localPath = FileOut -> "3f"

\* tmpfilePath := filepath.Join(self.workingDir, tmpfileName)
tmpfilePath(localPath) == Join(workingDir, <<tmpfileName(localPath)>>)

\* the paths temp files can be at
TmpPaths == {tmpfilePath(p) : p \in LocalPaths}

NoTmpFiles == [p \in TmpPaths |-> None]

\* relative keys the identity cache can be written under
RelKeys == {<<"a">>, <<"d", "a">>, <<"d", "e", "a">>, <<"..", "homework", "a">>}

NoFiles == [p \in LocalPaths |-> None]

NoObjects == [k \in AllKeys |-> {}]

OnlyA(body) == [files |-> [NoFiles EXCEPT ![FileA] = body], dirs |-> {LocalDir}]

EmptyRoot == [files |-> NoFiles, dirs |-> {LocalDir}]

(***************************************************************************)
(* The runs of the model.  A scenario gives the identities an object under *)
(* each key may take (keys), the exclude lists the Puller may be           *)
(* configured with, and the local trees the program may be started on.     *)
(***************************************************************************)
\* one object that changes: no exclude, or the pattern "a"
ScenarioChange ==
    [keys |-> [NoObjects EXCEPT ![KeyA] = {ETag1, ETag2}],
     excludes |-> { <<>>, << <<"a">> >> },
     locals |-> {EmptyRoot, OnlyA("old"), OnlyA("b1")}]

\* an object at the root, which the local tree may hold already, and one in
\* a directory: no exclude, "d/**", or "d/" (which matches the
\* directory d and no file)
ScenarioDir ==
    [keys |-> [NoObjects EXCEPT ![KeyA] = {ETag1}, ![KeyDA] = {ETag1}],
     excludes |-> { <<>>, << <<"d", "**">> >>, << <<"d", "">> >> },
     locals |-> {EmptyRoot, OnlyA("b1"),
                 [files |-> NoFiles, dirs |-> {LocalDir, DirD}],
                 [files |-> [NoFiles EXCEPT ![FileDA] = "old"],
                  dirs |-> {LocalDir, DirD}]}]

\* two keys with the same relative path
ScenarioDup ==
    [keys |-> [NoObjects EXCEPT ![KeyDupA] = {ETag1, ETag2}, ![KeyA] = {ETag1}],
     excludes |-> { <<>> },
     locals |-> {EmptyRoot, OnlyA("old")}]

\* the prefix itself and its directory marker
ScenarioMarker ==
    [keys |-> [NoObjects EXCEPT ![KeyPrefix] = {ETag1}, ![KeyMarker] = {ETag1},
                                ![KeyA] = {ETag1}],
     excludes |-> { <<>> },
     locals |-> {EmptyRoot}]

\* a directory in a directory, empty or with one file: no exclude, "e/**"
\* (which names no directory of the tree at the root), or the file itself
ScenarioNested ==
    [keys |-> [NoObjects EXCEPT ![KeyA] = {ETag1}],
     excludes |-> { <<>>, << <<"e", "**">> >>, << <<"d", "e", "a">> >> },
     locals |-> {[files |-> NoFiles, dirs |-> {LocalDir, DirD, DirDE}],
                 [files |-> [NoFiles EXCEPT ![FileDEA] = "old"],
                  dirs |-> {LocalDir, DirD, DirDE}]}]

\* a key next to the prefix that the listing by string prefix returns
ScenarioSibling ==
    [keys |-> [NoObjects EXCEPT ![KeyA] = {ETag1}, ![KeySibling] = {ETag1}],
     excludes |-> { <<>> },
     locals |-> {EmptyRoot}]

\* three objects, two of them with the same relative path: more tasks and
\* more messages than a queue of MaxQueued holds
ScenarioFull ==
    [keys |-> [NoObjects EXCEPT ![KeyDupA] = {ETag1}, ![KeyA] = {ETag1},
                                ![KeyDA] = {ETag1}],
     excludes |-> { <<>> },
     locals |-> {EmptyRoot}]

Scenarios ==
    {ScenarioChange, ScenarioDir, ScenarioDup, ScenarioMarker, ScenarioNested,
     ScenarioSibling}

Workers == 1..MaxWorkers

VARIABLES
    exclude,            \* Puller.exclude
    workerCnt,          \* Puller.workerCnt
    universe,           \* key -> the identities an object under it may take
    queueCap,           \* capacities of taskQueue and errMsgQueue
    remoteUri,          \* Puller.RemoteUri
    uidLock,            \* Puller.uidLock: the mutex is locked
    inCS,               \* the goroutines between uidLock.Lock and uidLock.Unlock
    oldUid,             \* handlePageList: <<oldUid>> once read from the cache
    seeding,            \* PopulateChecksum: the files still to be seeded
    remote,             \* object store: key -> identity, or None
    faultsLeft,         \* I/O faults the environment may still inject
    local,              \* regular files under LocalDir: path -> body, or None
    dirs,               \* the directories that exist, LocalDir among them
    tmp,                \* temp file of a destination path in workingDir
    workingDirExists,   \* Puller.workingDir exists
    uidCache,           \* Puller.uidCache: relative key -> identity, or None
    taskQueue,          \* Puller.taskQueue
    taskQueueClosed,
    errMsgQueue,        \* Puller.errMsgQueue
    errMsgQueueClosed,
    filesToDelete,      \* Puller.filesToDelete (a nil map is the empty set)
    fileListedCnt,      \* Puller.fileListedCnt
    filePulledCnt,      \* Puller.filePulledCnt
    pc,                 \* position of the goroutine running Pull
    toList,             \* records of the listing not yet handed to handlePageList
    listErr,            \* err of ListObjectsV2Pages
    ret,                \* the value Pull returned: sequence of messages, <<>> is ""
    cycle,              \* number of Pull calls so far
    wpc,                \* position of each worker goroutine
    wtask,              \* the task a worker is handling
    wfd,                \* where the file a worker holds open now lives
    messages,           \* messages of the collector goroutine
    pullErrMsg,         \* pullErrMsg of Pull
    aggDone,            \* the collector goroutine has called errMsgWg.Done
    metrics,            \* the three gauges of the pull subsystem
    InitialRunFinished, \* main.InitialRunFinished
    FlagRunOnce,        \* main.FlagRunOnce
    mainPc,             \* position of pullCmd.Run
    health,             \* status of the last GET /health answer, 0 if none yet
    startFiles,         \* history: local files when the current Pull was called
    startState,         \* history: files, cache and fault budget at that moment
    active,             \* history: Pull invocations that have not returned
    listing,            \* history: the listing of the current Pull
    enqueued,           \* history: tasks enqueued by the current Pull
    dlFailed,           \* history: tasks of the current Pull whose Download failed
    removed,            \* history: paths removed by the current Pull
    taken,              \* history: tasks the workers took, in the order taken
    placed,             \* history: tasks whose os.Rename succeeded
    pushed,             \* history: messages sent to errMsgQueue, with their tasks
    stable              \* history: Pulls that returned since the remote last changed

vars == <<exclude, workerCnt, universe, queueCap, remoteUri, uidLock, inCS, oldUid,
          seeding, remote, faultsLeft, local, dirs, tmp,
          workingDirExists, uidCache, taskQueue, taskQueueClosed, errMsgQueue,
          errMsgQueueClosed, filesToDelete, fileListedCnt, filePulledCnt, pc,
          toList, listErr, ret, cycle, wpc, wtask, wfd, messages, pullErrMsg, aggDone,
          metrics, InitialRunFinished, FlagRunOnce, mainPc, health, startFiles,
          startState, active, listing, enqueued, dlFailed, removed, taken,
          placed, pushed, stable>>

configVars == <<exclude, workerCnt, universe, queueCap, remoteUri>>

lockVars == <<uidLock, inCS, oldUid, seeding>>

fsVars == <<local, dirs, tmp, workingDirExists>>

queueVars == <<taskQueue, taskQueueClosed, errMsgQueue, errMsgQueueClosed>>

workerVars == <<wpc, wtask, wfd>>

mainVars == <<InitialRunFinished, FlagRunOnce, mainPc, health>>

taskHist == <<taken, placed, pushed>>

histVars ==
    <<startFiles, startState, active, listing, enqueued, dlFailed, removed,
      taskHist, stable>>

aggVars == <<messages, pullErrMsg, aggDone>>

counterVars == <<fileListedCnt, filePulledCnt>>

(***************************************************************************)
(* parseObjectUri                                                          *)
(***************************************************************************)
\* positions of an empty component between two others, i.e. of a "//"
DoubleSlashAt(uri) == {i \in 2..(Len(uri) - 1) : uri[i] = ""}

Min(S) == CHOOSE x \in S : \A y \in S : x <= y

\* splits at the last "//"
parseObjectUriLast(uri) ==
    IF DoubleSlashAt(uri) = {} THEN [ok |-> FALSE, bucket |-> "", key |-> <<>>]
    ELSE LET last == CHOOSE i \in DoubleSlashAt(uri) :
                         \A j \in DoubleSlashAt(uri) : j <= i
             path == SubSeq(uri, last + 1, Len(uri))
         IN  IF Len(path) < 2 THEN [ok |-> FALSE, bucket |-> "", key |-> <<>>]
             ELSE [ok |-> TRUE, bucket |-> Head(path), key |-> Tail(path)]

\* parseObjectUri(uri): [ok, bucket, key]
parseObjectUri(uri) ==
    IF DoubleSlashAt(uri) = {} THEN [ok |-> FALSE, bucket |-> "", key |-> <<>>]
    ELSE LET path == SubSeq(uri, Min(DoubleSlashAt(uri)) + 1, Len(uri))
         IN  IF Len(path) < 2 THEN [ok |-> FALSE, bucket |-> "", key |-> <<>>]
             ELSE [ok |-> TRUE, bucket |-> Head(path), key |-> Tail(path)]

\* fmt.Sprintf("s3://%s/%s", bucket, key)
ObjectUri(b, key) == <<"s3:", "", b>> \o key

remoteDirPath == parseObjectUri(RemoteUri).key

(***************************************************************************)
(* listAndPruneDir                                                         *)
(***************************************************************************)
\* the walk's relPath of a directory: "this is so that pattern foo/** also
\* matches foo"
DirRelPath(dirname, d) == Rel(dirname, d).path \o <<"">>

\* the walk returns filepath.SkipDir at directory d
WalkSkipsDir(dirname, excl, d) ==
    \/ ~Rel(dirname, d).ok
    \/ isPathExcluded(excl, DirRelPath(dirname, d))

\* the directories between dirname and path, dirname included
DirsAbove(dirname, path) ==
    {SubSeq(path, 1, k) : k \in Len(dirname)..(Len(path) - 1)}

WalkVisitsAll(dirname, excl, path) == TRUE

\* filepath.Walk calls the callback on path
WalkVisits(dirname, excl, path) ==
    \A d \in DirsAbove(dirname, path) : ~WalkSkipsDir(dirname, excl, d)

\* the walk's shouldSkip for a regular file
WalkSkipsFile(dirname, excl, f) ==
    \/ ~Rel(dirname, f).ok
    \/ isPathExcluded(excl, Rel(dirname, f).path)

\* files: the map listAndPruneDir returns
WalkFiles(dirname, excl, fs, ds) ==
    {f \in DOMAIN fs :
        /\ fs[f] # None
        /\ IsUnder(dirname, f)
        /\ WalkVisits(dirname, excl, f)
        /\ ~WalkSkipsFile(dirname, excl, f)}

\* dirsToDelete when the walk has ended
WalkDirsToDelete(dirname, excl, fs, ds) ==
    {d \in ds :
        /\ IsUnder(dirname, d)
        /\ WalkVisits(dirname, excl, d)
        /\ ~WalkSkipsDir(dirname, excl, d)
        /\ \A f \in WalkFiles(dirname, excl, fs, ds) : Dir(f) # d}

DirIsEmptyAlways(d, fs, ds) == TRUE

\* os.Remove(d) of a directory succeeds only when it has no entry
DirIsEmpty(d, fs, ds) ==
    /\ \A f \in DOMAIN fs : fs[f] # None => Dir(f) # d
    /\ \A e \in ds : Dir(e) # d

RECURSIVE RemoveDirs(_, _, _)
\* the loop "for d := range dirsToDelete { os.Remove(d) }" taken in order ord
RemoveDirs(ord, fs, ds) ==
    IF ord = <<>> THEN ds
    ELSE RemoveDirs(Tail(ord), fs,
                    IF DirIsEmpty(Head(ord), fs, ds) THEN ds \ {Head(ord)} ELSE ds)

\* the orders a range over a Go map with the keys S may take
MapOrders(S) ==
    {o \in [1..Cardinality(S) -> S] : \A i, j \in 1..Cardinality(S) : o[i] = o[j] => i = j}

(***************************************************************************)
(* The object store                                                        *)
(***************************************************************************)
RemoteStates(u) ==
    {r \in [AllKeys -> ETags \cup {None}] :
        \A k \in AllKeys : r[k] # None => r[k] \in u[k]}

RECURSIVE ListFrom(_, _)
\* the records ListObjectsV2 returns from position i of KeyOrder on
ListFrom(r, i) ==
    IF i > Len(KeyOrder) THEN <<>>
    ELSE IF r[KeyOrder[i]] = None THEN ListFrom(r, i + 1)
    ELSE <<[Key |-> KeyOrder[i], ETag |-> r[KeyOrder[i]]]>> \o ListFrom(r, i + 1)

ListObjectsV2(r) == ListFrom(r, 1)

(***************************************************************************)
(* Initial states                                                          *)
(***************************************************************************)
NoCache == [k \in RelKeys |-> None]

\* every existing file is seeded, excluded or not
PopulateChecksumAll(excl, fs, ds) ==
    [k \in RelKeys |->
        IF Join(LocalDir, k) \in {f \in DOMAIN fs : fs[f] # None /\ IsUnder(LocalDir, f)}
        THEN Md5Quoted(fs[Join(LocalDir, k)])
        ELSE None]

\* Puller.PopulateChecksum: walks LocalDir like listAndPruneDir does and
\* seeds the cache of every file it does not skip
PopulateChecksum(excl, fs, ds) ==
    [k \in RelKeys |->
        IF Join(LocalDir, k) \in WalkFiles(LocalDir, excl, fs, ds)
        THEN Md5Quoted(fs[Join(LocalDir, k)])
        ELSE None]

\* history of the Pulls since the remote last changed: how many went through
\* to the deletion of the stale files, how many of those returned the empty
\* string, the tasks of the last Pull that ended with a message, and what
\* the three were when the current Pull was called
NoPulls ==
    [done |-> 0, clean |-> 0, errored |-> {},
     doneBefore |-> 0, cleanBefore |-> 0, erroredBefore |-> {}]

\* the tasks that ended with a message sent to errMsgQueue
ErroredTasks == {pushed[i].task : i \in 1..Len(pushed)}

\* no Pull is running: nothing was recorded at its call
NoStart == [local |-> NoFiles, cache |-> NoCache, faults |-> 0]

NoTask == [Uri |-> <<>>, LocalPath |-> <<>>, Uid |-> None, UidKey |-> <<>>]

InitPullerOn(scenarios) ==
    /\ \E sc \in scenarios :
          /\ universe = sc.keys
          /\ exclude \in sc.excludes
          /\ \E li \in sc.locals : local = li.files /\ dirs = li.dirs
    /\ workerCnt \in 1..MaxWorkers
    /\ uidLock = FALSE
    /\ inCS = {}
    /\ oldUid = <<>>
    \* Puller.RemoteUri as the caller passed it
    /\ remoteUri \in RemoteUris
    /\ remote \in RemoteStates(universe)
    /\ faultsLeft = MaxFaults
    /\ tmp = NoTmpFiles
    /\ workingDirExists = FALSE
    \* --scratch, or PopulateChecksum before the first pull
    /\ uidCache \in {NoCache, PopulateChecksum(exclude, local, dirs)}
    /\ taskQueue = <<>>
    /\ taskQueueClosed = FALSE
    /\ errMsgQueue = <<>>
    /\ errMsgQueueClosed = FALSE
    /\ filesToDelete = {}
    /\ fileListedCnt = 0
    /\ filePulledCnt = 0
    /\ pc = "idle"
    /\ toList = <<>>
    /\ listErr = FALSE
    /\ ret = <<>>
    /\ cycle = 0
    /\ wpc = [w \in Workers |-> "none"]
    /\ wtask = [w \in Workers |-> NoTask]
    /\ wfd = [w \in Workers |-> None]
    /\ messages = <<>>
    /\ pullErrMsg = <<>>
    /\ aggDone = FALSE
    /\ metrics = [listed |-> 0, pulled |-> 0, deleted |-> 0]
    /\ InitialRunFinished = FALSE
    /\ health = 0
    /\ startFiles = {}
    /\ startState = NoStart
    /\ active = 0
    /\ listing = <<>>
    /\ enqueued = {}
    /\ dlFailed = {}
    /\ removed = {}
    /\ taken = <<>>
    /\ placed = {}
    /\ pushed = <<>>
    /\ stable = NoPulls

\* "make(chan DownloadTask, 30)" and "make(chan string, 30)"
QueueCaps == [task |-> TaskQueueCap, err |-> ErrQueueCap]

InitPuller == InitPullerOn(Scenarios) /\ queueCap = QueueCaps /\ seeding = <<>>

\* Pull called by any caller of the package, again and again
Init == InitPuller /\ mainPc = "lib" /\ FlagRunOnce = FALSE

(***************************************************************************)
(* Puller.Pull, up to the listing                                          *)
(***************************************************************************)
\* the regular files under LocalDir
ExistingFiles(fs) == {f \in DOMAIN fs : fs[f] # None /\ IsUnder(LocalDir, f)}

PullStart ==
    /\ pc = "idle"
    /\ cycle < MaxCycles
    /\ cycle' = cycle + 1
    \* listAndPruneDir(self.LocalDir, self.exclude)
    /\ filesToDelete' = WalkFiles(LocalDir, exclude, local, dirs)
    /\ \E ord \in MapOrders(WalkDirsToDelete(LocalDir, exclude, local, dirs)) :
          dirs' = RemoveDirs(ord, local, dirs)
    \* parseObjectUri(self.RemoteUri) succeeds
    /\ parseObjectUri(remoteUri).ok
    /\ taskQueue' = <<>>
    /\ taskQueueClosed' = FALSE
    /\ errMsgQueue' = <<>>
    /\ errMsgQueueClosed' = FALSE
    \* SetupWorkingDir
    /\ workingDirExists' = TRUE
    \* worker goroutines and the collector goroutine
    /\ wpc' = [w \in Workers |-> IF w <= workerCnt THEN "idle" ELSE "none"]
    /\ wtask' = [w \in Workers |-> NoTask]
    /\ wfd' = [w \in Workers |-> None]
    /\ messages' = <<>>
    /\ pullErrMsg' = <<>>
    /\ aggDone' = FALSE
    /\ fileListedCnt' = 0
    /\ filePulledCnt' = 0
    \* svc.ListObjectsV2Pages
    /\ toList' = ListObjectsV2(remote)
    /\ listErr' = FALSE
    /\ pc' = "listing"
    /\ startFiles' = ExistingFiles(local)
    /\ startState' = [local |-> local, cache |-> uidCache, faults |-> faultsLeft]
    /\ active' = active + 1
    /\ listing' = ListObjectsV2(remote)
    /\ enqueued' = {}
    /\ dlFailed' = {}
    /\ removed' = {}
    /\ taken' = <<>>
    /\ placed' = {}
    /\ pushed' = <<>>
    /\ stable' = [stable EXCEPT !.doneBefore = stable.done,
                                 !.cleanBefore = stable.clean,
                                 !.erroredBefore = stable.errored]
    /\ UNCHANGED <<configVars, lockVars, remote, faultsLeft, local, tmp, uidCache, ret,
                   metrics, mainVars>>

\* an error message: its format string and the path it names
ErrMsg(kind, path) == [kind |-> kind, path |-> path]

\* the message of a return of Pull before its goroutines are spawned
FatalMsg(kind) ==
    IF kind = "prune" THEN ErrMsg("Failed to list and prune local dir", LocalDir)
    ELSE IF kind = "uri" THEN ErrMsg("Invalid remote uri", remoteUri)
    ELSE IF kind = "region" THEN ErrMsg("Failed to detect AWS region", <<>>)
    ELSE ErrMsg("Failed to create working directory", workingDir)

\* the walk fails before any directory is removed
PrunedAlways(kind) == TRUE

\* listAndPruneDir removed the empty directories before Pull returns for kind
Pruned(kind) == kind # "prune"

\* Pull returns early: filepath.Walk fails, self.RemoteUri is invalid, or
\* metaSvc.Region or SetupWorkingDir fails. Only "self.filesToDelete = nil" is
\* deferred by then, os.RemoveAll is not.
PullFatal ==
    /\ pc = "idle"
    /\ cycle < MaxCycles
    /\ cycle' = cycle + 1
    /\ \E kind \in {"prune", "uri", "region", "workdir"} :
          /\ IF kind = "uri"
             THEN ~parseObjectUri(remoteUri).ok /\ UNCHANGED faultsLeft
             ELSE /\ kind = "prune" \/ parseObjectUri(remoteUri).ok
                  /\ faultsLeft > 0
                  /\ faultsLeft' = faultsLeft - 1
          /\ ret' = <<FatalMsg(kind)>>
          /\ IF Pruned(kind)
             THEN \E ord \in MapOrders(WalkDirsToDelete(LocalDir, exclude, local, dirs)) :
                     dirs' = RemoveDirs(ord, local, dirs)
             ELSE UNCHANGED dirs
          /\ IF kind \in {"region", "workdir"}
             THEN /\ taskQueue' = <<>>
                  /\ taskQueueClosed' = FALSE
                  /\ errMsgQueue' = <<>>
                  /\ errMsgQueueClosed' = FALSE
             ELSE UNCHANGED queueVars
    /\ filesToDelete' = {}
    /\ pc' = "returned"
    /\ toList' = <<>>
    /\ listErr' = FALSE
    /\ startFiles' = ExistingFiles(local)
    /\ startState' = [local |-> local, cache |-> uidCache, faults |-> faultsLeft]
    /\ listing' = <<>>
    /\ enqueued' = {}
    /\ dlFailed' = {}
    /\ removed' = {}
    /\ taken' = <<>>
    /\ placed' = {}
    /\ pushed' = <<>>
    /\ stable' = [stable EXCEPT !.doneBefore = stable.done,
                                 !.cleanBefore = stable.clean,
                                 !.erroredBefore = stable.errored,
                                 !.errored = {}]
    /\ UNCHANGED <<configVars, lockVars, remote, local, tmp, workingDirExists, uidCache,
                   counterVars, workerVars, aggVars, metrics, mainVars, active>>

(***************************************************************************)
(* Puller.handlePageList: one iteration of its loop over page.Contents     *)
(***************************************************************************)
RecRel(obj) == Rel(remoteDirPath, obj.Key)

RecLocalPath(obj) == Join(LocalDir, RecRel(obj).path)

\* the record is dropped before "remove file from purge list"
RecSkipped(excl, obj) ==
    \/ HasSlashSuffix(obj.Key)
    \/ ~RecRel(obj).ok
    \/ isPathExcluded(excl, RecRel(obj).path)

RecIsParentNever(obj) == FALSE

\* "skip parent dir itself"
RecIsParent(obj) == RecRel(obj).path \in {<<>>, <<"">>, <<"", "">>, <<".">>}

\* the record is counted in fileListedCnt
RecListed(excl, obj) == ~RecSkipped(excl, obj) /\ ~RecIsParent(obj)

\* "oldUid, ok := self.uidCache[uidKey]": ok
CacheHas(cache, uidKey) == uidKey \in DOMAIN cache /\ cache[uidKey] # None

CacheHitPresenceOnly(cache, uidKey, newUid) == CacheHas(cache, uidKey)

\* "ok && oldUid == newUid"
CacheHit(cache, uidKey, newUid) ==
    CacheHas(cache, uidKey) /\ cache[uidKey] = newUid

UndeleteNothing(toDelete, obj) == toDelete

\* "remove file from purge list": delete(self.filesToDelete, localPath)
Undelete(toDelete, obj) == toDelete \ {RecLocalPath(obj)}

TaskOf(obj) ==
    [Uri |-> ObjectUri(parseObjectUri(RemoteUri).bucket, obj.Key),
     LocalPath |-> RecLocalPath(obj),
     Uid |-> obj.ETag,
     UidKey |-> RecRel(obj).path]

handlePageList ==
    /\ pc = "listing"
    /\ toList # <<>>
    /\ LET obj == Head(toList)
       IN  /\ toList' = Tail(toList)
           /\ IF RecSkipped(exclude, obj)
              THEN UNCHANGED <<filesToDelete, counterVars, taskQueue, enqueued>>
              ELSE /\ filesToDelete' = Undelete(filesToDelete, obj)
                   /\ IF RecIsParent(obj)
                      THEN UNCHANGED <<counterVars, taskQueue, enqueued>>
                      ELSE /\ fileListedCnt' = fileListedCnt + 1
                           /\ IF CacheHit(uidCache, RecRel(obj).path, obj.ETag)
                              THEN UNCHANGED <<filePulledCnt, taskQueue, enqueued>>
                              ELSE /\ Len(taskQueue) < queueCap.task
                                   /\ filePulledCnt' = filePulledCnt + 1
                                   /\ taskQueue' = Append(taskQueue, TaskOf(obj))
                                   /\ enqueued' = enqueued \cup {TaskOf(obj)}
    /\ UNCHANGED <<configVars, lockVars, remote, faultsLeft, fsVars, uidCache,
                   taskQueueClosed, errMsgQueue, errMsgQueueClosed, pc, listErr,
                   ret, cycle, workerVars, aggVars, metrics, mainVars,
                   startFiles, startState, active, listing, dlFailed, removed,
                   taskHist, stable>>

\* the channel is left as it is
closeNothing(closed) == closed

\* close(ch): the channel is closed from now on
close(closed) == TRUE

\* ListObjectsV2Pages returns nil after the last page; close(self.taskQueue)
ListDone ==
    /\ pc = "listing"
    /\ toList = <<>>
    /\ taskQueueClosed' = close(taskQueueClosed)
    /\ pc' = "waitWorkers"
    /\ UNCHANGED <<configVars, lockVars, remote, faultsLeft, fsVars, uidCache, taskQueue,
                   errMsgQueue, errMsgQueueClosed, filesToDelete, counterVars,
                   toList, listErr, ret, cycle, workerVars, aggVars, metrics,
                   mainVars, histVars>>

\* ListObjectsV2Pages returns an error instead of the next page;
\* close(self.taskQueue)
ListFail ==
    /\ pc = "listing"
    /\ faultsLeft > 0
    /\ toList # <<>>
    /\ faultsLeft' = faultsLeft - 1
    /\ listErr' = TRUE
    /\ toList' = <<>>
    /\ taskQueueClosed' = close(taskQueueClosed)
    /\ pc' = "waitWorkers"
    /\ UNCHANGED <<configVars, lockVars, remote, fsVars, uidCache, taskQueue,
                   errMsgQueue, errMsgQueueClosed, filesToDelete, counterVars,
                   ret, cycle, workerVars, aggVars, metrics, mainVars, histVars>>

(***************************************************************************)
(* Puller.downloadHandler, run by worker goroutine w                       *)
(***************************************************************************)
\* every directory is created
MkdirAllPaths(parentDir) == DirPaths

\* os.MkdirAll(parentDir): parentDir and the directories above it
MkdirAll(parentDir) ==
    {SubSeq(parentDir, 1, k) : k \in 1..Len(parentDir)} \cap DirPaths

\* a worker that is inside downloadHandler with the temp file of path open
HoldsOpen(w, path) ==
    wpc[w] \in {"opened", "downloaded", "renamed"} /\ wtask[w].LocalPath = path

\* the received task stays in the channel
ReceiveNothing(queue) == queue

\* "for task := range self.taskQueue": the channel after one receive
Receive(queue) == Tail(queue)

\* the worker takes a task from the queue and runs downloadHandler up to the
\* creation of the temp file
downloadHandlerOpen(w) ==
    /\ wpc[w] = "idle"
    /\ taskQueue # <<>>
    /\ taskQueue' = Receive(taskQueue)
    /\ LET task == Head(taskQueue)
       IN  IF HasSlashSuffix(task.Uri)
           THEN UNCHANGED <<fsVars, errMsgQueue, workerVars, pushed>>
           ELSE IF ~parseObjectUri(task.Uri).ok
           THEN /\ Len(errMsgQueue) < queueCap.err
                /\ errMsgQueue' = Append(errMsgQueue, ErrMsg("Got invalid remote uri", task.Uri))
                /\ pushed' = Append(pushed,
                       [msg |-> ErrMsg("Got invalid remote uri", task.Uri), task |-> task])
                /\ UNCHANGED <<fsVars, workerVars>>
           ELSE IF ~workingDirExists
           THEN /\ Len(errMsgQueue) < queueCap.err
                /\ errMsgQueue' = Append(errMsgQueue,
                       ErrMsg("Failed to create temp file for download", task.LocalPath))
                /\ pushed' = Append(pushed,
                       [msg |-> ErrMsg("Failed to create temp file for download",
                                       task.LocalPath),
                        task |-> task])
                /\ dirs' = dirs \cup MkdirAll(Dir(task.LocalPath))
                /\ UNCHANGED <<local, tmp, workingDirExists, workerVars>>
           ELSE /\ dirs' = dirs \cup MkdirAll(Dir(task.LocalPath))
                \* O_WRONLY|O_CREATE|O_TRUNC on workingDir/md5(LocalPath)
                /\ tmp' = [tmp EXCEPT ![tmpfilePath(task.LocalPath)] = "part"]
                /\ wpc' = [wpc EXCEPT ![w] = "opened"]
                /\ wtask' = [wtask EXCEPT ![w] = task]
                /\ wfd' = [wfd EXCEPT ![w] = "tmp"]
                /\ UNCHANGED <<local, workingDirExists, errMsgQueue, pushed>>
    /\ taken' = Append(taken, Head(taskQueue))
    /\ UNCHANGED <<configVars, lockVars, remote, faultsLeft, uidCache, taskQueueClosed,
                   errMsgQueueClosed, filesToDelete, counterVars, pc, toList,
                   listErr, ret, cycle, aggVars, metrics, mainVars,
                   startFiles, startState, active, listing, enqueued, dlFailed,
                   removed, placed, stable>>

\* the worker takes a task and os.MkdirAll(parentDir) or os.OpenFile fails:
\* downloadHandler sends its message and returns
downloadHandlerOpenErr(w) ==
    /\ wpc[w] = "idle"
    /\ taskQueue # <<>>
    /\ faultsLeft > 0
    /\ ~HasSlashSuffix(Head(taskQueue).Uri)
    /\ parseObjectUri(Head(taskQueue).Uri).ok
    /\ Len(errMsgQueue) < queueCap.err
    /\ faultsLeft' = faultsLeft - 1
    /\ taskQueue' = Receive(taskQueue)
    /\ taken' = Append(taken, Head(taskQueue))
    /\ LET task == Head(taskQueue)
       IN  \E msg \in {ErrMsg("Failed to create directory", task.LocalPath),
                        ErrMsg("Failed to create temp file for download", task.LocalPath)} :
              /\ errMsgQueue' = Append(errMsgQueue, msg)
              /\ pushed' = Append(pushed, [msg |-> msg, task |-> task])
              /\ dirs' = IF msg.kind = "Failed to create directory"
                         THEN dirs ELSE dirs \cup MkdirAll(Dir(task.LocalPath))
    /\ UNCHANGED <<configVars, lockVars, remote, local, tmp, workingDirExists, uidCache,
                   taskQueueClosed, errMsgQueueClosed, filesToDelete,
                   counterVars, pc, toList, listErr, ret, cycle, workerVars,
                   aggVars, metrics, mainVars, startFiles, startState, active,
                   listing, enqueued, dlFailed, removed, placed, stable>>

BodyOfPartial(task) == "part"

\* the body Download writes for the object under the key of the task's uri
BodyOf(task) == ObjectBody(remote[parseObjectUri(task.Uri).key])

\* the file system after the whole of body was written through the file w holds
WriteThrough(w, body) ==
    /\ tmp' = IF wfd[w] = "tmp"
              THEN [tmp EXCEPT ![tmpfilePath(wtask[w].LocalPath)] = body] ELSE tmp
    /\ local' = IF wfd[w] = "local"
                THEN [local EXCEPT ![wtask[w].LocalPath] = body] ELSE local

\* downloader.Download returns nil
downloadHandlerDownloadOk(w) ==
    /\ wpc[w] = "opened"
    /\ WriteThrough(w, BodyOf(wtask[w]))
    /\ wpc' = [wpc EXCEPT ![w] = "downloaded"]
    /\ UNCHANGED <<configVars, lockVars, remote, faultsLeft, dirs, workingDirExists,
                   uidCache, queueVars, filesToDelete, counterVars, pc, toList,
                   listErr, ret, cycle, wtask, wfd, aggVars, metrics, mainVars,
                   histVars>>

\* downloader.Download returns an error, which downloadHandler drops; the
\* body is not written in full
downloadHandlerDownloadErr(w) ==
    /\ wpc[w] = "opened"
    /\ faultsLeft > 0
    /\ faultsLeft' = faultsLeft - 1
    /\ WriteThrough(w, "part")
    /\ wpc' = [wpc EXCEPT ![w] = "downloaded"]
    /\ dlFailed' = dlFailed \cup {wtask[w]}
    /\ UNCHANGED <<configVars, lockVars, remote, dirs, workingDirExists, uidCache,
                   queueVars, filesToDelete, counterVars, pc, toList, listErr,
                   ret, cycle, wtask, wfd, aggVars, metrics, mainVars,
                   startFiles, startState, active, listing, enqueued, removed,
                   taskHist, stable>>

\* where the open files live after the temp file of path was renamed over path
FdAfterRename(path) ==
    [v \in Workers |->
        IF HoldsOpen(v, path)
        THEN (IF wfd[v] = "tmp" THEN "local"
              ELSE IF wfd[v] = "local" THEN "orphan" ELSE wfd[v])
        ELSE wfd[v]]

\* os.Rename(tmpfilePath, task.LocalPath) succeeds
downloadHandlerRenameOk(w) ==
    /\ wpc[w] = "downloaded"
    /\ tmp[tmpfilePath(wtask[w].LocalPath)] # None
    /\ local' = [local EXCEPT ![wtask[w].LocalPath] = tmp[tmpfilePath(wtask[w].LocalPath)]]
    /\ tmp' = [tmp EXCEPT ![tmpfilePath(wtask[w].LocalPath)] = None]
    /\ wfd' = FdAfterRename(wtask[w].LocalPath)
    /\ wpc' = [wpc EXCEPT ![w] = "renamed"]
    /\ placed' = placed \cup {wtask[w]}
    /\ UNCHANGED <<configVars, lockVars, remote, faultsLeft, dirs, workingDirExists,
                   uidCache, queueVars, filesToDelete, counterVars, pc, toList,
                   listErr, ret, cycle, wtask, aggVars, metrics, mainVars,
                   startFiles, startState, active, listing, enqueued, dlFailed,
                   removed, taken, pushed, stable>>

FallsThroughOnError(wp, w) == [wp EXCEPT ![w] = "renamed"]

StopsOnError(wp, w) == [wp EXCEPT ![w] = "exited"]

\* the "return" that follows the send of the rename error message
ReturnsOnError(wp, w) == [wp EXCEPT ![w] = "idle"]

\* os.Rename fails: the temp file is gone, or the file system refuses
downloadHandlerRenameErr(w) ==
    /\ wpc[w] = "downloaded"
    /\ \/ tmp[tmpfilePath(wtask[w].LocalPath)] = None /\ UNCHANGED faultsLeft
       \/ tmp[tmpfilePath(wtask[w].LocalPath)] # None /\ faultsLeft > 0
          /\ faultsLeft' = faultsLeft - 1
    /\ Len(errMsgQueue) < queueCap.err
    /\ errMsgQueue' = Append(errMsgQueue,
           ErrMsg("Failed to replace file for download", wtask[w].LocalPath))
    /\ pushed' = Append(pushed,
           [msg |-> ErrMsg("Failed to replace file for download", wtask[w].LocalPath),
            task |-> wtask[w]])
    /\ wpc' = ReturnsOnError(wpc, w)
    /\ wtask' = IF wpc'[w] = "idle" THEN [wtask EXCEPT ![w] = NoTask] ELSE wtask
    /\ wfd' = [wfd EXCEPT ![w] = None]
    /\ UNCHANGED <<configVars, lockVars, remote, fsVars, uidCache, taskQueue,
                   taskQueueClosed, errMsgQueueClosed, filesToDelete,
                   counterVars, pc, toList, listErr, ret, cycle, aggVars,
                   metrics, mainVars, startFiles, startState, active, listing,
                   enqueued, dlFailed, removed, taken, placed, stable>>

CachePutNothing(cache, key, uid) == cache

\* self.uidCache[task.UidKey] = task.Uid
CachePut(cache, key, uid) == [cache EXCEPT ![key] = uid]

\* "update cache with new object ID", under uidLock
downloadHandlerCache(w) ==
    /\ wpc[w] = "renamed"
    /\ uidCache' = CachePut(uidCache, wtask[w].UidKey, wtask[w].Uid)
    /\ wpc' = [wpc EXCEPT ![w] = "idle"]
    /\ wtask' = [wtask EXCEPT ![w] = NoTask]
    /\ wfd' = [wfd EXCEPT ![w] = None]
    /\ UNCHANGED <<configVars, lockVars, remote, faultsLeft, fsVars, queueVars,
                   filesToDelete, counterVars, pc, toList, listErr, ret, cycle,
                   aggVars, metrics, mainVars, histVars>>

\* "for task := range self.taskQueue" ends: the queue is closed and drained
WorkerExit(w) ==
    /\ wpc[w] = "idle"
    /\ taskQueue = <<>>
    /\ taskQueueClosed
    /\ wpc' = [wpc EXCEPT ![w] = "exited"]
    /\ UNCHANGED <<configVars, lockVars, remote, faultsLeft, fsVars, uidCache, queueVars,
                   filesToDelete, counterVars, pc, toList, listErr, ret, cycle,
                   wtask, wfd, aggVars, metrics, mainVars, histVars>>

(***************************************************************************)
(* The error message collector goroutine of Pull                           *)
(***************************************************************************)
\* only the last message is kept
CollectLast(msgs, msg) == <<msg>>

\* "errMessages = append(errMessages, msg)"
Collect(msgs, msg) == Append(msgs, msg)

CollectorTake ==
    /\ ~aggDone
    /\ errMsgQueue # <<>>
    /\ messages' = Collect(messages, Head(errMsgQueue))
    /\ errMsgQueue' = Tail(errMsgQueue)
    /\ UNCHANGED <<configVars, lockVars, remote, faultsLeft, fsVars, uidCache, taskQueue,
                   taskQueueClosed, errMsgQueueClosed, filesToDelete,
                   counterVars, pc, toList, listErr, ret, cycle, workerVars,
                   pullErrMsg, aggDone, metrics, mainVars, histVars>>

RECURSIVE StringsJoin(_, _)
\* strings.Join(msgs, sep)
StringsJoin(msgs, sep) ==
    IF Len(msgs) <= 1 THEN msgs
    ELSE <<Head(msgs), sep>> \o StringsJoin(Tail(msgs), sep)

Separator == ErrMsg("; ", <<>>)

CollectorDone ==
    /\ ~aggDone
    /\ errMsgQueue = <<>>
    /\ errMsgQueueClosed
    /\ pullErrMsg' = StringsJoin(messages, Separator)
    /\ aggDone' = TRUE
    /\ UNCHANGED <<configVars, lockVars, remote, faultsLeft, fsVars, uidCache, queueVars,
                   filesToDelete, counterVars, pc, toList, listErr, ret, cycle,
                   workerVars, messages, metrics, mainVars, histVars>>

(***************************************************************************)
(* Puller.Pull, from wg.Wait to its return                                 *)
(***************************************************************************)
PullDefersNoRemoveAll ==
    /\ UNCHANGED <<tmp, workingDirExists>>
    /\ filesToDelete' = {}

\* the deferred calls of Pull: os.RemoveAll(self.workingDir) and
\* self.filesToDelete = nil
PullDefers ==
    /\ tmp' = NoTmpFiles
    /\ workingDirExists' = FALSE
    /\ filesToDelete' = {}

WorkersDoneAlways(wp, cnt) == TRUE

\* wg.Wait returns: each of the cnt worker goroutines has called wg.Done
WorkersDone(wp, cnt) == \A w \in Workers : w <= cnt => wp[w] = "exited"

\* wg.Wait returns, close(self.errMsgQueue), the two gauges are set, and Pull
\* returns the listing error if there is one
PullJoin ==
    /\ pc = "waitWorkers"
    /\ WorkersDone(wpc, workerCnt)
    /\ errMsgQueueClosed' = close(errMsgQueueClosed)
    /\ metrics' = [metrics EXCEPT !.listed = fileListedCnt, !.pulled = filePulledCnt]
    /\ IF listErr
       THEN /\ ret' = <<ErrMsg("Failed to list remote uri", RemoteUri)>>
            /\ PullDefers
            /\ pc' = "returned"
            /\ active' = active - 1
            /\ stable' = [stable EXCEPT !.errored = ErroredTasks]
       ELSE /\ pc' = "waitAgg"
            /\ UNCHANGED <<ret, tmp, workingDirExists, filesToDelete, active,
                           stable>>
    /\ UNCHANGED <<configVars, lockVars, remote, faultsLeft, local, dirs, uidCache,
                   taskQueue, taskQueueClosed, errMsgQueue, counterVars, toList,
                   listErr, cycle, workerVars, aggVars, mainVars, startFiles,
                   startState, listing, enqueued, dlFailed, removed, taskHist>>

RemoveNothing(fs, paths) == fs

\* "for f := range self.filesToDelete { os.Remove(f) }"
RemoveFiles(fs, paths) == [f \in DOMAIN fs |-> IF f \in paths THEN None ELSE fs[f]]

\* errMsgWg.Wait returns, the stale files are deleted and Pull returns
\* pullErrMsg
PullFinish ==
    /\ pc = "waitAgg"
    /\ aggDone
    /\ metrics' = [metrics EXCEPT !.deleted = Cardinality(filesToDelete)]
    /\ local' = RemoveFiles(local, filesToDelete)
    /\ removed' = {f \in filesToDelete : local[f] # None /\ RemoveFiles(local, filesToDelete)[f] = None}
    /\ ret' = pullErrMsg
    /\ PullDefers
    /\ pc' = "returned"
    /\ stable' = [stable EXCEPT !.done = @ + 1,
                                 !.clean = IF pullErrMsg = <<>> THEN @ + 1 ELSE @,
                                 !.errored = ErroredTasks]
    /\ active' = active - 1
    /\ UNCHANGED <<configVars, lockVars, remote, faultsLeft, dirs, uidCache, queueVars,
                   counterVars, toList, listErr, cycle, workerVars, aggVars,
                   mainVars, startFiles, startState, listing, enqueued, dlFailed,
                   taskHist>>

(***************************************************************************)
(* Callers of Pull and the environment                                     *)
(***************************************************************************)
\* the history variables of a Pull say nothing once its caller has gone on
HistoryOfNoPull ==
    /\ startFiles' = {}
    /\ startState' = NoStart
    /\ listing' = <<>>
    /\ enqueued' = {}
    /\ dlFailed' = {}
    /\ removed' = {}
    /\ taken' = <<>>
    /\ placed' = {}
    /\ pushed' = <<>>

\* a caller of the package calls Pull again
PullAgain ==
    /\ mainPc = "lib"
    /\ pc = "returned"
    /\ pc' = "idle"
    /\ HistoryOfNoPull
    /\ UNCHANGED <<configVars, lockVars, remote, faultsLeft, fsVars, uidCache, queueVars,
                   filesToDelete, counterVars, toList, listErr, ret, cycle,
                   workerVars, aggVars, metrics, mainVars, stable, active>>

\* between two pulls, objects are put to and deleted from the store
RemoteChange ==
    /\ pc = "idle"
    /\ cycle > 0
    /\ cycle < MaxCycles
    /\ remote' \in RemoteStates(universe) \ {remote}
    /\ stable' = NoPulls
    /\ UNCHANGED <<configVars, lockVars, faultsLeft, fsVars, uidCache, queueVars,
                   filesToDelete, counterVars, pc, toList, listErr, ret, cycle,
                   workerVars, aggVars, metrics, mainVars, startFiles,
                   startState, active, listing, enqueued, dlFailed, removed,
                   taskHist>>

PullFailedNever(errMsg) == FALSE

\* the pull closure: "if errMsg != \"\""
PullFailed(errMsg) == errMsg # <<>>

PullReturnedAlways(p) == TRUE

\* "errMsg := puller.Pull()" is a synchronous call: the closure goes on when
\* Pull has returned
PullReturned(p) == p = "returned"

\* main.go: what follows puller.Pull() in the pull closure and in pullCmd.Run
MainAfterPull ==
    /\ mainPc \in {"first", "tick"}
    /\ PullReturned(pc)
    /\ IF PullFailed(ret)
       THEN \* os.Exit(1)
            /\ mainPc' = "exit1"
            /\ UNCHANGED <<pc, InitialRunFinished, histVars>>
       ELSE IF FlagRunOnce
       THEN \* Run returns and main ends
            /\ mainPc' = "exit0"
            /\ UNCHANGED <<pc, InitialRunFinished, histVars>>
       ELSE IF mainPc = "first"
       THEN \* the pull before the loop: on to "case <-ticker.C"
            /\ mainPc' = "tick"
            /\ pc' = "idle"
            /\ HistoryOfNoPull
            /\ UNCHANGED <<InitialRunFinished, stable, active>>
       ELSE /\ InitialRunFinished' = TRUE
            /\ pc' = "idle"
            /\ HistoryOfNoPull
            /\ UNCHANGED <<mainPc, stable, active>>
    /\ UNCHANGED <<configVars, lockVars, remote, faultsLeft, fsVars, uidCache, queueVars,
                   filesToDelete, counterVars, toList, listErr, ret, cycle,
                   workerVars, aggVars, metrics, FlagRunOnce, health>>

\* the status healthCheckHandler answers with
HealthStatus(flag) == IF flag THEN 200 ELSE 500

\* GET /health, served from "go serveHealthCheckEndpoints()" on
healthCheckHandler ==
    /\ ~FlagRunOnce
    /\ mainPc \in {"first", "tick"}
    /\ health' = HealthStatus(InitialRunFinished)
    /\ health' # health
    /\ UNCHANGED <<configVars, lockVars, remote, faultsLeft, fsVars, uidCache, queueVars,
                   filesToDelete, counterVars, pc, toList, listErr, ret, cycle,
                   workerVars, aggVars, metrics, InitialRunFinished, FlagRunOnce,
                   mainPc, histVars>>

(***************************************************************************)
(* Specifications                                                          *)
(***************************************************************************)
WorkerStep(w) ==
    \/ downloadHandlerOpen(w)
    \/ downloadHandlerOpenErr(w)
    \/ downloadHandlerDownloadOk(w)
    \/ downloadHandlerDownloadErr(w)
    \/ downloadHandlerRenameOk(w)
    \/ downloadHandlerRenameErr(w)
    \/ downloadHandlerCache(w)
    \/ WorkerExit(w)

PullStep ==
    \/ PullStart
    \/ PullFatal
    \/ handlePageList
    \/ ListDone
    \/ ListFail
    \/ \E w \in Workers : WorkerStep(w)
    \/ CollectorTake
    \/ CollectorDone
    \/ PullJoin
    \/ PullFinish

Next ==
    \/ PullStep
    \/ PullAgain
    \/ RemoteChange

\* the Puller under a caller that calls Pull again and again
Spec == Init /\ [][Next]_vars

\* pullCmd.Run, with --once or in daemon mode, about to run its first pull
InitMain == InitPuller /\ mainPc = "first" /\ FlagRunOnce \in BOOLEAN

NextMain ==
    \/ PullStep
    \/ MainAfterPull
    \/ healthCheckHandler
    \/ RemoteChange

\* the program as main.go runs it
SpecMain == InitMain /\ [][NextMain]_vars

\* a Puller whose queues hold MaxQueued elements, so that the classifier and
\* the workers meet full queues with the few objects of ScenarioFull
InitLive ==
    /\ InitPullerOn({ScenarioFull})
    /\ queueCap = [task |-> MaxQueued, err |-> MaxQueued]
    /\ seeding = <<>>
    /\ mainPc = "lib"
    /\ FlagRunOnce = FALSE

\* the Go scheduler lets every goroutine that can take a step take one: the
\* goroutine of Pull, each worker and the collector
Fairness ==
    /\ WF_vars(handlePageList)
    /\ WF_vars(ListDone)
    /\ WF_vars(PullJoin)
    /\ WF_vars(PullFinish)
    /\ WF_vars(CollectorTake)
    /\ WF_vars(CollectorDone)
    /\ \A w \in Workers : WF_vars(WorkerStep(w))

\* the Puller with small queues under a fair scheduler
SpecLive == InitLive /\ [][PullStep]_vars /\ Fairness

(***************************************************************************)
(* Puller.uidLock: the accesses to uidCache with Lock and Unlock as steps  *)
(***************************************************************************)
MutexFreeAlways(m) == TRUE

\* sync.Mutex.Lock returns only when the mutex is unlocked
MutexFree(m) == ~m

\* the goroutine of Pull, in which handlePageList runs
Driver == <<"driver">>

\* the goroutine that calls PopulateChecksum
Seeder == <<"populate">>

\* worker goroutine w
WorkerId(w) == <<"worker", w>>

\* handlePageList reaches "self.uidLock.Lock()" for the record
NeedsLock(obj) == ~RecSkipped(exclude, obj) /\ ~RecIsParent(obj)

\* "oldUid, ok := self.uidCache[uidKey]"
CacheGet(cache, uidKey) == IF CacheHas(cache, uidKey) THEN cache[uidKey] ELSE None

\* setFileChecksum: self.uidLock.Lock()
setFileChecksumLock ==
    /\ pc = "idle"
    /\ seeding # <<>>
    /\ Seeder \notin inCS
    /\ MutexFree(uidLock)
    /\ uidLock' = TRUE
    /\ inCS' = inCS \cup {Seeder}
    /\ UNCHANGED <<configVars, oldUid, seeding, remote, faultsLeft, fsVars,
                   uidCache, queueVars, filesToDelete, counterVars, pc, toList,
                   listErr, ret, cycle, workerVars, aggVars, metrics, mainVars,
                   histVars>>

\* setFileChecksum: self.uidCache[uidKey] = uid; self.uidLock.Unlock()
setFileChecksumUnlock ==
    /\ Seeder \in inCS
    /\ uidCache' = CachePut(uidCache, Rel(LocalDir, Head(seeding)).path,
                            Md5Quoted(local[Head(seeding)]))
    /\ seeding' = Tail(seeding)
    /\ uidLock' = FALSE
    /\ inCS' = inCS \ {Seeder}
    /\ UNCHANGED <<configVars, oldUid, remote, faultsLeft, fsVars, queueVars,
                   filesToDelete, counterVars, pc, toList, listErr, ret, cycle,
                   workerVars, aggVars, metrics, mainVars, histVars>>

\* handlePageList on a record that it drops before it reaches the cache
handlePageListNoLock ==
    /\ pc = "listing"
    /\ toList # <<>>
    /\ ~NeedsLock(Head(toList))
    /\ handlePageList

\* handlePageList: self.uidLock.Lock()
handlePageListLock ==
    /\ pc = "listing"
    /\ toList # <<>>
    /\ NeedsLock(Head(toList))
    /\ oldUid = <<>>
    /\ Driver \notin inCS
    /\ MutexFree(uidLock)
    /\ uidLock' = TRUE
    /\ inCS' = inCS \cup {Driver}
    /\ UNCHANGED <<configVars, oldUid, seeding, remote, faultsLeft, fsVars,
                   uidCache, queueVars, filesToDelete, counterVars, pc, toList,
                   listErr, ret, cycle, workerVars, aggVars, metrics, mainVars,
                   histVars>>

\* handlePageList: "oldUid, ok := self.uidCache[uidKey]"; self.uidLock.Unlock()
handlePageListRead ==
    /\ Driver \in inCS
    /\ oldUid' = <<CacheGet(uidCache, RecRel(Head(toList)).path)>>
    /\ uidLock' = FALSE
    /\ inCS' = inCS \ {Driver}
    /\ UNCHANGED <<configVars, seeding, remote, faultsLeft, fsVars, uidCache,
                   queueVars, filesToDelete, counterVars, pc, toList, listErr,
                   ret, cycle, workerVars, aggVars, metrics, mainVars,
                   histVars>>

\* handlePageList: the rest of the iteration, with the value read under the
\* lock: "if ok && oldUid == newUid { continue }", else the task is enqueued
handlePageListCompare ==
    /\ pc = "listing"
    /\ oldUid # <<>>
    /\ LET obj == Head(toList)
       IN  /\ toList' = Tail(toList)
           /\ filesToDelete' = Undelete(filesToDelete, obj)
           /\ fileListedCnt' = fileListedCnt + 1
           /\ IF oldUid[1] = obj.ETag
              THEN UNCHANGED <<filePulledCnt, taskQueue, enqueued>>
              ELSE /\ Len(taskQueue) < queueCap.task
                   /\ filePulledCnt' = filePulledCnt + 1
                   /\ taskQueue' = Append(taskQueue, TaskOf(obj))
                   /\ enqueued' = enqueued \cup {TaskOf(obj)}
    /\ oldUid' = <<>>
    /\ UNCHANGED <<configVars, uidLock, inCS, seeding, remote, faultsLeft,
                   fsVars, uidCache, taskQueueClosed, errMsgQueue,
                   errMsgQueueClosed, pc, listErr, ret, cycle, workerVars,
                   aggVars, metrics, mainVars, startFiles, startState, active,
                   listing, dlFailed, removed, taskHist, stable>>

\* downloadHandler: self.uidLock.Lock()
downloadHandlerLock(w) ==
    /\ wpc[w] = "renamed"
    /\ WorkerId(w) \notin inCS
    /\ MutexFree(uidLock)
    /\ uidLock' = TRUE
    /\ inCS' = inCS \cup {WorkerId(w)}
    /\ UNCHANGED <<configVars, oldUid, seeding, remote, faultsLeft, fsVars,
                   uidCache, queueVars, filesToDelete, counterVars, pc, toList,
                   listErr, ret, cycle, workerVars, aggVars, metrics, mainVars,
                   histVars>>

\* downloadHandler: self.uidCache[task.UidKey] = task.Uid;
\* self.uidLock.Unlock(); return
downloadHandlerUnlock(w) ==
    /\ wpc[w] = "renamed"
    /\ WorkerId(w) \in inCS
    /\ uidCache' = CachePut(uidCache, wtask[w].UidKey, wtask[w].Uid)
    /\ wpc' = [wpc EXCEPT ![w] = "idle"]
    /\ wtask' = [wtask EXCEPT ![w] = NoTask]
    /\ wfd' = [wfd EXCEPT ![w] = None]
    /\ uidLock' = FALSE
    /\ inCS' = inCS \ {WorkerId(w)}
    /\ UNCHANGED <<configVars, oldUid, seeding, remote, faultsLeft, fsVars,
                   queueVars, filesToDelete, counterVars, pc, toList, listErr,
                   ret, cycle, aggVars, metrics, mainVars, histVars>>

WorkerStepLock(w) ==
    \/ downloadHandlerOpen(w)
    \/ downloadHandlerOpenErr(w)
    \/ downloadHandlerDownloadOk(w)
    \/ downloadHandlerDownloadErr(w)
    \/ downloadHandlerRenameOk(w)
    \/ downloadHandlerRenameErr(w)
    \/ downloadHandlerLock(w)
    \/ downloadHandlerUnlock(w)
    \/ WorkerExit(w)

\* PopulateChecksum has returned when main.go calls Pull
SeedingDone == seeding = <<>> /\ Seeder \notin inCS

\* ListObjectsV2Pages returns between two calls of handlePageList
BetweenRecords == oldUid = <<>> /\ Driver \notin inCS

NextLock ==
    \/ setFileChecksumLock
    \/ setFileChecksumUnlock
    \/ SeedingDone /\ PullStart
    \/ SeedingDone /\ PullFatal
    \/ handlePageListNoLock
    \/ handlePageListLock
    \/ handlePageListRead
    \/ handlePageListCompare
    \/ ListDone
    \/ BetweenRecords /\ ListFail
    \/ \E w \in Workers : WorkerStepLock(w)
    \/ CollectorTake
    \/ CollectorDone
    \/ PullJoin
    \/ PullFinish

\* a new Puller, PopulateChecksum or not (--scratch), then one Pull
InitLock ==
    /\ InitPullerOn({ScenarioChange, ScenarioDup})
    /\ queueCap = QueueCaps
    /\ uidCache = NoCache
    /\ seeding \in {<<>>} \cup MapOrders(WalkFiles(LocalDir, exclude, local, dirs))
    /\ mainPc = "lib"
    /\ FlagRunOnce = FALSE

\* one Pull with the lock and the unlock of uidLock as steps of their own
SpecLock == InitLock /\ [][NextLock]_vars

(***************************************************************************)
(* Vocabulary of the claims                                                *)
(***************************************************************************)
\* the relative path is matched by a configured exclude pattern
Excluded(relPath) == \E i \in 1..Len(exclude) : Match(exclude[i], relPath)

RelOf(f) == Rel(LocalDir, f).path

\* the file lies under a directory that a configured exclude pattern matches
UnderExcludedDir(f) ==
    \E d \in DirsAbove(LocalDir, f) : Excluded(Rel(LocalDir, d).path \o <<"">>)

\* the key names an object under the remote prefix, not the prefix itself
UnderPrefix(key) ==
    /\ Rel(remoteDirPath, key).ok
    /\ Rel(remoteDirPath, key).path # <<".">>
    /\ Head(Rel(remoteDirPath, key).path) # ".."

\* the local paths of the objects the store holds: under the prefix, no
\* directory marker, not excluded
RemoteFiles ==
    {Join(LocalDir, Rel(remoteDirPath, k).path) :
        k \in {x \in AllKeys : /\ remote[x] # None
                               /\ ~HasSlashSuffix(x)
                               /\ UnderPrefix(x)
                               /\ ~Excluded(Rel(remoteDirPath, x).path)}}

\* the files present when Pull was called that an exclude pattern protects
KeptFiles == {f \in startFiles : Excluded(RelOf(f)) \/ UnderExcludedDir(f)}

\* Pull has returned, its listing succeeded and no task reported an error
CleanReturn == pc = "returned" /\ ~listErr /\ ret = <<>>

\* Pull returned before it listed anything or spawned a goroutine
EarlyReturn ==
    \E kind \in {"prune", "uri", "region", "workdir"} : ret = <<FatalMsg(kind)>>

(***************************************************************************)
(* C1 (deletion completeness): at the end of every pull cycle whose        *)
(* listing succeeded and whose tasks reported no error, the regular files  *)
(* under the local root are exactly the local paths of the remote objects  *)
(* (under the prefix, no marker, not excluded) plus the excluded files     *)
(* that were there before the cycle.  A file counts as excluded when a     *)
(* pattern matches it or a directory above it.                             *)
(***************************************************************************)
C1_DeletionCompleteness ==
    CleanReturn => ExistingFiles(local) = RemoteFiles \cup KeptFiles

(***************************************************************************)
(* C3 (failed download is not cached): a worker whose Download failed does *)
(* not rename the temp file over localPath, and the identity of a failed   *)
(* task is not in the cache under its key when Pull returns.               *)
(***************************************************************************)
C3_FailedDownloadNotCached ==
    /\ \A w \in Workers : wpc[w] = "renamed" => wtask[w] \notin dlFailed
    /\ pc = "returned" => \A t \in dlFailed : uidCache[t.UidKey] # t.Uid

(***************************************************************************)
(* C4 (download errors are reported): when the download of a task of the   *)
(* cycle failed, the string Pull returns is not empty.                     *)
(***************************************************************************)
C4_DownloadErrorReported ==
    (pc = "returned" /\ dlFailed # {}) => ret # <<>>

(***************************************************************************)
(* C5 (atomic replacement): in no reachable state does a local path hold a *)
(* partially written or truncated body.                                    *)
(***************************************************************************)
C5_NoPartialFile ==
    \A f \in LocalPaths : local[f] # "part"

\* no two objects of the store have the same path relative to the prefix
DistinctPaths ==
    \A k1, k2 \in AllKeys :
        (/\ k1 # k2
         /\ remote[k1] # None /\ ~HasSlashSuffix(k1)
         /\ remote[k2] # None /\ ~HasSlashSuffix(k2))
        => Rel(remoteDirPath, k1).path # Rel(remoteDirPath, k2).path

\* the Pull that has returned scheduled no download and deleted no file
NothingToDo ==
    /\ enqueued = {}
    /\ removed = {}
    /\ ~EarlyReturn => metrics.pulled = 0
    /\ (~listErr /\ ~EarlyReturn) => metrics.deleted = 0

C6_ExcludeCoverage ==
    [][\A f \in LocalPaths :
          Excluded(RelOf(f)) =>
              /\ local'[f] = local[f]
              /\ f \notin filesToDelete'
              /\ \A t \in enqueued' : t.LocalPath # f /\ t.UidKey # RelOf(f)
              /\ \A i \in 1..Len(taskQueue') : taskQueue'[i].LocalPath # f]_vars

\* a cycle has returned that listed a and d/a while d/** is excluded: a was
\* downloaded and the old d/a is still there
C6_Witness ==
    /\ pc = "returned"
    /\ ret = <<>> /\ ~listErr
    /\ Excluded(RelOf(FileDA))
    /\ remote[KeyDA] # None
    /\ local[FileDA] = "old"
    /\ local[FileA] = "b1"
    /\ metrics.listed = 1

\* the local paths that the records of the cycle's listing map to
ListedPaths ==
    {Join(LocalDir, Rel(remoteDirPath, listing[i].Key).path) :
        i \in {j \in 1..Len(listing) : /\ ~HasSlashSuffix(listing[j].Key)
                                       /\ Rel(remoteDirPath, listing[j].Key).ok}}

\* between two Pulls the delete set is empty: nothing carries over
DeleteSetReset == pc \in {"idle", "returned"} => filesToDelete = {}

C9_ReadyAfterFirstPull ==
    ~FlagRunOnce =>
        /\ mainPc = "first" => ~InitialRunFinished
        /\ mainPc = "tick" => InitialRunFinished
        /\ health = 200 => InitialRunFinished

\* Pull returned one of its fatal messages
FatalReturn == listErr \/ EarlyReturn

(***************************************************************************)
(* C10 (daemon survives non-fatal errors): in daemon mode the process      *)
(* exits non-zero only after a fatal pull error; a pull that returns only  *)
(* aggregated per-task messages does not end the process.                  *)
(***************************************************************************)
C10_DaemonSurvives ==
    (~FlagRunOnce /\ mainPc = "exit1") => FatalReturn

(***************************************************************************)
(* C11 (one-shot exit status): in one-shot mode exactly one pull runs; the *)
(* process exits non-zero if that pull returned a non-empty message (fatal *)
(* or aggregated) and exits zero if it returned the empty string.          *)
(***************************************************************************)
C11_OneShotExit ==
    FlagRunOnce =>
        /\ cycle <= 1
        /\ mainPc \in {"first", "exit0", "exit1"}
        /\ mainPc = "exit1" => (cycle = 1 /\ pc = "returned" /\ ret # <<>>)
        /\ mainPc = "exit0" => (cycle = 1 /\ pc = "returned" /\ ret = <<>>)

\* the one pull returned the aggregated message of a failed task and the
\* process has exited non-zero
C11_Witness ==
    /\ FlagRunOnce
    /\ mainPc = "exit1"
    /\ cycle = 1
    /\ ~listErr
    /\ ret # <<>>

\* the records of the cycle's listing that are counted as listed and whose
\* identity the cache of the cycle's start does not hold under their key
MissedRecords ==
    {i \in 1..Len(listing) :
        LET rel == Rel(remoteDirPath, listing[i].Key)
        IN  /\ ~HasSlashSuffix(listing[i].Key)
            /\ rel.ok
            /\ ~Excluded(rel.path)
            /\ rel.path # <<".">>
            /\ startState.cache[rel.path] # listing[i].ETag}

\* the last record of MissedRecords with the relative key, 0 if there is none
LastMissed(relKey) ==
    LET S == {i \in MissedRecords : Rel(remoteDirPath, listing[i].Key).path = relKey}
    IN  IF S = {} THEN 0 ELSE CHOOSE i \in S : \A j \in S : j <= i

\* what the inputs of the cycle (local tree, cache, exclude list, listing)
\* determine: a missed record's body at its path, no file at an inventoried
\* path without record, everything else as it was
ExpectedLocal ==
    [f \in LocalPaths |->
        IF LastMissed(RelOf(f)) # 0
        THEN ObjectBody(listing[LastMissed(RelOf(f))].ETag)
        ELSE IF /\ f \in startFiles
                /\ ~Excluded(RelOf(f)) /\ ~UnderExcludedDir(f)
                /\ f \notin ListedPaths
             THEN None
             ELSE startState.local[f]]

ExpectedCache ==
    [k \in RelKeys |->
        IF LastMissed(k) # 0 THEN listing[LastMissed(k)].ETag
        ELSE startState.cache[k]]

\* Pull has returned after a successful listing and no I/O operation of the
\* cycle failed
FaultFreeReturn ==
    /\ pc = "returned"
    /\ ~listErr
    /\ ~EarlyReturn
    /\ faultsLeft = startState.faults

ExcludedDir(d) ==
    \E e \in DirsAbove(LocalDir, d) \cup {d} :
        Excluded(Rel(LocalDir, e).path \o <<"">>)

\* the regular files under the root that no exclude pattern protects
SurvivingFiles ==
    {f \in ExistingFiles(local) : ~Excluded(RelOf(f)) /\ ~UnderExcludedDir(f)}

\* the step in which Pull calls listAndPruneDir
ListAndPruneStep == pc = "idle" /\ pc' = "listing"

(***************************************************************************)
(* C13 (empty-directory pruning is complete): when listAndPruneDir has     *)
(* returned, every directory under the local root that has no surviving    *)
(* (non-excluded) file below it, at any depth, has been removed, except    *)
(* the root and the excluded directories, whatever the order in which the  *)
(* candidates are removed.                                                 *)
(***************************************************************************)
C13_PruningComplete ==
    [][ListAndPruneStep =>
          \A d \in dirs' :
              (IsUnder(LocalDir, d) /\ ~ExcludedDir(d))
              => \E f \in SurvivingFiles : IsUnder(d, f)]_vars

\* the regular files at any depth below the directory
FilesBelow(d, fs) == {f \in DOMAIN fs : fs[f] # None /\ IsUnder(d, f)}

(***************************************************************************)
(* C14 (pruning is safe): listAndPruneDir never removes a regular file,    *)
(* never removes the root directory, never removes a directory matched by  *)
(* an exclude pattern nor anything below it, and never removes a directory *)
(* that still has a regular file anywhere below it.                        *)
(***************************************************************************)
C14_PruningSafe ==
    [][ListAndPruneStep =>
          /\ local' = local
          /\ LocalDir \in dirs'
          /\ \A d \in dirs \ dirs' :
                /\ ~ExcludedDir(d)
                /\ FilesBelow(d, local) = {}]_vars

\* listAndPruneDir has run on a tree whose directory d/e was a candidate for
\* removal (its only file is excluded) and is still there with its file
C14_Witness ==
    /\ pc = "listing"
    /\ exclude = << <<"d", "e", "a">> >>
    /\ local[FileDEA] = "old"
    /\ DirDE \in dirs
    /\ DirDE \in WalkDirsToDelete(LocalDir, exclude, local, dirs)
    /\ filesToDelete = {}

(***************************************************************************)
(* C15 (inventory content): the set listAndPruneDir returns holds exactly  *)
(* the paths of the regular files under the root that match no exclude     *)
(* pattern and lie under no excluded directory; it never holds a           *)
(* directory; and a pattern anchored at the root ("e/**", "d/**") excludes *)
(* the directory at that position only, not a directory of the same name   *)
(* deeper in the tree.                                                     *)
(***************************************************************************)
C15_InventoryContent ==
    [][ListAndPruneStep =>
          /\ filesToDelete' = SurvivingFiles
          /\ filesToDelete' \cap DirPaths = {}
          /\ \A f \in filesToDelete' : local[f] # None /\ IsUnder(LocalDir, f)
          /\ (exclude = << <<"e", "**">> >> /\ local[FileDEA] # None)
                => FileDEA \in filesToDelete'
          /\ exclude = << <<"d", "**">> >> => FileDA \notin filesToDelete']_vars

\* the inventory of a tree with the file d/e/a taken under the exclude
\* pattern "e/**": the file is in it
C15_Witness ==
    /\ pc = "listing"
    /\ exclude = << <<"e", "**">> >>
    /\ local[FileDEA] = "old"
    /\ filesToDelete = {FileDEA}

\* the step in which handlePageList handles the next record of the listing
HandleRecordStep ==
    pc = "listing" /\ pc' = "listing" /\ toList # <<>> /\ toList' = Tail(toList)

\* the record is a directory marker or the prefix itself
MarkerOrPrefix(obj) == HasSlashSuffix(obj.Key) \/ obj.Key = KeyPrefix

(***************************************************************************)
(* C16 (markers and the prefix itself are skipped): a listing record whose *)
(* key ends with "/", or whose path relative to the prefix is "", "/" or   *)
(* ".", never produces a download task and is never counted in            *)
(* fileListedCnt or filePulledCnt.                                         *)
(***************************************************************************)
C16_MarkersSkipped ==
    [][(HandleRecordStep /\ MarkerOrPrefix(Head(toList))) =>
          /\ taskQueue' = taskQueue
          /\ enqueued' = enqueued
          /\ fileListedCnt' = fileListedCnt
          /\ filePulledCnt' = filePulledCnt]_vars

\* the prefix and its marker were both listed and handled, and nothing has
\* been counted or enqueued
C16_Witness ==
    /\ pc = "listing"
    /\ remote[KeyPrefix] # None
    /\ remote[KeyMarker] # None
    /\ Len(toList) = 1
    /\ Head(toList).Key = KeyA
    /\ fileListedCnt = 0
    /\ filePulledCnt = 0
    /\ enqueued = {}

\* a relative key as the spec defines it: no leading "/", no ".." segment
IsRelativeKey(relKey) ==
    /\ relKey # <<>> => Head(relKey) # ""
    /\ \A i \in 1..Len(relKey) : relKey[i] # ".."

(***************************************************************************)
(* C17 (RelativeKey invariant): every key of an enqueued task and every    *)
(* identity-cache key written never begins with "/" and never contains a   *)
(* ".." segment, so every localPath written lies under the local root; a   *)
(* listed key that is not under the prefix as a path (a sibling that       *)
(* shares the prefix string) is skipped.                                   *)
(***************************************************************************)
C17_RelativeKey ==
    /\ \A t \in enqueued :
          /\ IsRelativeKey(t.UidKey)
          /\ IsUnder(LocalDir, t.LocalPath)
    /\ \A k \in DOMAIN uidCache : uidCache[k] # None => IsRelativeKey(k)
    /\ \A f \in DOMAIN local : local[f] # None => IsUnder(LocalDir, f)

(***************************************************************************)
(* C18 (listing failure): when the listing fails partway, Pull returns the *)
(* fatal listing message; every task enqueued before the failure has been  *)
(* taken and finished by a worker when Pull returns; and no path of the    *)
(* delete set is removed in that cycle.                                    *)
(***************************************************************************)
C18_ListingFailure ==
    (pc = "returned" /\ listErr) =>
        /\ ret = <<ErrMsg("Failed to list remote uri", RemoteUri)>>
        /\ taskQueue = <<>>
        /\ \A w \in Workers : wtask[w] = NoTask
        /\ \A w \in Workers : w <= workerCnt => wpc[w] = "exited"
        /\ removed = {}
        /\ \A f \in startFiles : local[f] # None

\* the listing failed after the record of home/a and before the one of
\* home/d/a: a was downloaded, and d/a, still in the delete set at the
\* failure, is in place
C18_Witness ==
    /\ pc = "returned"
    /\ listErr
    /\ exclude = <<>>
    /\ Cardinality(enqueued) = 1
    /\ local[FileA] = "b1"
    /\ local[FileDA] = "old"
    /\ FileDA \in startFiles

(***************************************************************************)
(* C19 (at most one cycle at a time): in daemon and in one-shot mode a     *)
(* pull starts only after the previous pull has returned; in no state are  *)
(* two Pull invocations of the Puller active.                              *)
(***************************************************************************)
C19_OneCycleAtATime ==
    /\ active \in {0, 1}
    /\ active = 1 <=> pc \notin {"idle", "returned"}
    /\ FlagRunOnce => cycle <= 1

\* the daemon's second pull is running, alone, after the first has returned
C19_Witness ==
    /\ ~FlagRunOnce
    /\ mainPc = "tick"
    /\ cycle = 2
    /\ pc = "listing"
    /\ active = 1
    /\ stable.done = 1

C21_CacheAfterPlacement ==
    [][/\ uidCache' # uidCache =>
            \E w \in Workers :
                /\ wpc[w] = "renamed"
                /\ wtask[w] \in placed
                /\ wtask[w] \notin ErroredTasks
                /\ local[wtask[w].LocalPath] # None
                /\ uidCache' = [uidCache EXCEPT ![wtask[w].UidKey] = wtask[w].Uid]
       /\ Len(pushed') > Len(pushed) => uidCache' = uidCache]_vars

\* one task of the cycle was placed and cached, the other one ended with an
\* error message and its key has no cache entry
C21_Witness ==
    /\ pc = "returned"
    /\ \E t \in placed : uidCache[t.UidKey] = t.Uid /\ startState.cache[t.UidKey] = None
    /\ \E t \in ErroredTasks :
          /\ t \notin placed
          /\ uidCache[t.UidKey] = None
          /\ uidCache[t.UidKey] = startState.cache[t.UidKey]

\* between two calls of Pull
CycleBoundary == pc \in {"idle", "returned"}

(***************************************************************************)
(* C22 (cache agrees with the local tree): at every cycle boundary every   *)
(* key of the identity cache names a regular file that exists under the    *)
(* local root, so that a cache hit never leaves a listed object without a  *)
(* local copy, after any sequence of cycles in which objects are removed   *)
(* from and re-added to the remote.                                        *)
(***************************************************************************)
C22_CacheAgreesWithTree ==
    CycleBoundary =>
        \A k \in DOMAIN uidCache :
            uidCache[k] # None =>
                /\ IsUnder(LocalDir, Join(LocalDir, k))
                /\ local[Join(LocalDir, k)] # None

(***************************************************************************)
(* C23 (un-delete is unconditional): every listing record that is not a    *)
(* marker, is relativizable and is not excluded removes                    *)
(* join(localRoot, relPath) from the delete set, also when the download is *)
(* skipped on a cache hit; hence a local file that the remote listed in a  *)
(* cycle is never deleted by that cycle.                                   *)
(***************************************************************************)
C23_UndeleteUnconditional ==
    [][/\ HandleRecordStep =>
            LET obj == Head(toList)
                rel == Rel(remoteDirPath, obj.Key)
            IN  (~HasSlashSuffix(obj.Key) /\ rel.ok /\ ~Excluded(rel.path))
                => filesToDelete' = filesToDelete \ {Join(LocalDir, rel.path)}
       /\ (pc = "waitAgg" /\ pc' = "returned") => removed' \cap ListedPaths = {}]_vars

\* the record of home/a was a cache hit (counted, nothing enqueued), the file
\* a was in the inventory, and it is still there when Pull has returned
C23_Witness ==
    /\ pc = "returned"
    /\ ~listErr
    /\ fileListedCnt = 1
    /\ enqueued = {}
    /\ FileA \in startFiles
    /\ ~Excluded(RelOf(FileA))
    /\ FileA \in ListedPaths
    /\ local[FileA] = "b1"

C25_CycleTerminates == (pc \notin {"idle", "returned"}) ~> (pc = "returned")

\* a cycle has returned in which the classifier had found taskQueue full and
\* a worker had found errMsgQueue full
C25_Witness ==
    /\ pc = "returned"
    /\ queueCap.task = MaxQueued
    /\ Cardinality(enqueued) > queueCap.task
    /\ Len(pushed) > queueCap.err
    /\ taskQueue = <<>>
    /\ errMsgQueue = <<>>

\* a step of a worker goroutine inside a Pull call
WorkerMoves == pc' = pc /\ pc \notin {"idle", "returned"} /\ wpc' # wpc

\* C26: the task queue is closed exactly once, by the goroutine of Pull when
\* it leaves the listing, and nothing is enqueued afterwards; the error queue
\* is closed exactly once, by the goroutine of Pull when wg.Wait has returned
\* with every worker exited; nothing is sent on a closed queue and no step of
\* a worker changes whether a queue is closed
C26_ClosingProtocol ==
    [][/\ (pc = "listing" /\ pc' = "waitWorkers")
              => ~taskQueueClosed /\ taskQueueClosed'
       /\ (~taskQueueClosed /\ taskQueueClosed')
              => pc = "listing" /\ pc' = "waitWorkers"
       /\ (taskQueueClosed /\ ~taskQueueClosed') => pc \in {"idle", "returned"}
       /\ taskQueueClosed
              => Len(taskQueue') <= Len(taskQueue) /\ enqueued' \subseteq enqueued
       /\ (pc = "waitWorkers" /\ pc' # pc)
              => ~errMsgQueueClosed /\ errMsgQueueClosed'
       /\ (~errMsgQueueClosed /\ errMsgQueueClosed')
              => /\ pc = "waitWorkers" /\ pc' # pc
                 /\ \A w \in Workers : w <= workerCnt => wpc[w] = "exited"
                 /\ wpc' = wpc
       /\ (errMsgQueueClosed /\ ~errMsgQueueClosed')
              => pc \in {"idle", "returned"}
       /\ errMsgQueueClosed
              => Len(errMsgQueue') <= Len(errMsgQueue) /\ Len(pushed') <= Len(pushed)
       /\ WorkerMoves
              => /\ taskQueueClosed' = taskQueueClosed
                 /\ errMsgQueueClosed' = errMsgQueueClosed]_vars

\* a Pull has returned with both queues closed after tasks were enqueued and
\* a worker sent a message
C26_Witness ==
    /\ pc = "returned"
    /\ ~EarlyReturn
    /\ taskQueueClosed
    /\ errMsgQueueClosed
    /\ enqueued # {}
    /\ pushed # <<>>

\* C27: every task enqueued in a Pull is either still in the task queue or
\* was taken exactly once; a task is in the hands of at most one worker; and
\* when Pull returns after wg.Wait the queue is empty, every enqueued task
\* was taken once and every worker has left downloadHandler
C27_ExactlyOnce ==
    /\ \A i \in 1..Len(taken) : taken[i] \in enqueued
    /\ \A i, j \in 1..Len(taken) : taken[i] = taken[j] => i = j
    /\ \A i \in 1..Len(taskQueue) :
          /\ taskQueue[i] \in enqueued
          /\ \A j \in 1..Len(taken) : taken[j] # taskQueue[i]
    /\ pc \in {"listing", "waitWorkers", "waitAgg"}
          => Len(taken) + Len(taskQueue) = Cardinality(enqueued)
    /\ \A w \in Workers :
          wtask[w] # NoTask
             => /\ \E i \in 1..Len(taken) : taken[i] = wtask[w]
                /\ \A v \in Workers : wtask[v] = wtask[w] => v = w
    /\ (pc \in {"waitAgg", "returned"} /\ ~EarlyReturn)
          => /\ taskQueue = <<>>
             /\ Len(taken) = Cardinality(enqueued)
             /\ \A w \in Workers : wtask[w] = NoTask

\* a Pull has returned after two workers took two tasks each of which was
\* enqueued once
C27_Witness ==
    /\ pc = "returned"
    /\ ~EarlyReturn
    /\ workerCnt > 1
    /\ Cardinality(enqueued) > 1
    /\ Len(taken) = Cardinality(enqueued)

\* every worker goroutine of the Pull has left its loop
WorkersTerminated == \A w \in Workers : w <= workerCnt => wpc[w] = "exited"

\* C28: when a Pull that started its goroutines has returned, every worker
\* goroutine and the collector goroutine of that Pull have terminated
C28_Teardown ==
    (pc = "returned" /\ ~EarlyReturn) => WorkersTerminated /\ aggDone

\* the step in which Pull returns the collected string: "return pullErrMsg"
ReturnsCollected == pc = "waitAgg" /\ pc' = "returned"

\* C29: when the listing succeeded, Pull reads pullErrMsg only after the
\* collector has finished, and the string it returns is made of the messages
\* the workers sent in this Pull, in the order sent, each once, with "; "
\* between two of them; it is empty exactly if no worker sent a message
C29_ErrorAggregation ==
    [][ReturnsCollected
          => /\ aggDone
             /\ errMsgQueue = <<>>
             /\ ret' = pullErrMsg
             /\ Len(pushed) = 0 <=> ret' = <<>>
             /\ Len(pushed) > 0 => Len(ret') = 2 * Len(pushed) - 1
             /\ \A i \in 1..Len(pushed) : ret'[2 * i - 1] = pushed[i].msg
             /\ \A i \in 1..(Len(pushed) - 1) : ret'[2 * i] = Separator]_vars

\* a Pull whose listing succeeded has returned two messages and the separator
C29_Witness ==
    /\ pc = "returned"
    /\ ~listErr
    /\ ~EarlyReturn
    /\ Len(pushed) = 2
    /\ ret = <<pushed[1].msg, Separator, pushed[2].msg>>

\* the step in which Pull returns before it has spawned a goroutine
FatalStep == pc = "idle" /\ pc' = "returned"

\* C30: a Pull that fails in the walk of the local directory, on an invalid
\* remote uri, in the region lookup or in the creation of the working
\* directory returns a message in one step: no worker is started, nothing is
\* enqueued, taken or downloaded, no file is removed, the cache and the
\* counters are as before; after a walk failure the directories are as
\* before too; and nothing of that Pull runs after the return
C30_FatalReturnsAtOnce ==
    [][/\ FatalStep
          => /\ ret' # <<>>
             /\ \E kind \in {"prune", "uri", "region", "workdir"} :
                   ret' = <<FatalMsg(kind)>>
             /\ wpc' = wpc
             /\ \A w \in Workers : wpc[w] \in {"none", "exited"}
             /\ taskQueue' = <<>>
             /\ errMsgQueue' = <<>>
             /\ taken' = <<>>
             /\ placed' = {}
             /\ local' = local
             /\ tmp' = tmp
             /\ uidCache' = uidCache
             /\ fileListedCnt' = fileListedCnt
             /\ filePulledCnt' = filePulledCnt
             /\ ret' = <<FatalMsg("prune")>> => dirs' = dirs
       /\ (pc = "returned" /\ EarlyReturn)
          => /\ wpc' = wpc
             /\ local' = local
             /\ dirs' = dirs
             /\ uidCache' = uidCache]_vars

\* Pull has returned on a walk failure over a tree with an empty directory
\* that a successful walk would have removed
C30_Witness ==
    /\ pc = "returned"
    /\ ret = <<FatalMsg("prune")>>
    /\ WalkDirsToDelete(LocalDir, exclude, local, dirs) # {}

\* a step of a worker goroutine: it moves on in downloadHandler or takes a task
WorkerActs ==
    /\ pc' = pc
    /\ pc \notin {"idle", "returned"}
    /\ wpc' # wpc \/ Len(taken') > Len(taken)

\* the tasks the workers hold, with the task a worker takes in this step
TasksInHand ==
    {wtask[w] : w \in Workers}
        \cup (IF taskQueue # <<>> /\ Len(taken') > Len(taken)
              THEN {Head(taskQueue)} ELSE {})

\* C31: a step of a worker leaves filesToDelete, fileListedCnt and
\* filePulledCnt as they are; what it changes of the file system is the file
\* at the LocalPath of a task in hand, that task's temp file and directories
\* above that LocalPath; and a step that changes filesToDelete or a counter is
\* a step of the goroutine of Pull: handlePageList on one record, or the call
\* or the return of Pull
C31_WorkersLeaveCycleState ==
    [][/\ WorkerActs
          => /\ filesToDelete' = filesToDelete
             /\ fileListedCnt' = fileListedCnt
             /\ filePulledCnt' = filePulledCnt
             /\ toList' = toList
             /\ metrics' = metrics
             /\ \A f \in LocalPaths :
                   (local'[f] # local[f] \/ tmp'[tmpfilePath(f)] # tmp[tmpfilePath(f)])
                      => \E t \in TasksInHand : t.LocalPath = f
             /\ dirs \subseteq dirs'
             /\ \A d \in dirs' \ dirs :
                   \E t \in TasksInHand : IsUnder(d, t.LocalPath)
       /\ (\/ filesToDelete' # filesToDelete
           \/ fileListedCnt' # fileListedCnt
           \/ filePulledCnt' # filePulledCnt)
          => /\ ~WorkerActs
             /\ pc' # pc \/ HandleRecordStep]_vars

\* while the listing goes on and the delete set and both counters are in use,
\* a worker has placed a file that was not there at the call
C31_Witness ==
    /\ pc = "listing"
    /\ filesToDelete # {}
    /\ fileListedCnt > 0
    /\ filePulledCnt > 0
    /\ placed # {}
    /\ startState.local[FileDA] = None
    /\ local[FileDA] # None

\* C32: the cache is written only by a goroutine that holds uidLock and
\* unlocks it in the same step, handlePageList reads the cache only while it
\* holds uidLock, at most one goroutine is between Lock and Unlock, the mutex
\* is locked exactly while some goroutine is, and a worker that is idle or
\* has exited and a Pull that has returned hold nothing
C32_CacheMutex ==
    [][/\ Cardinality(inCS) <= 1
       /\ Cardinality(inCS') <= 1
       /\ uidLock' <=> inCS' # {}
       /\ uidCache' # uidCache
             => /\ uidLock
                /\ inCS # {}
                /\ inCS' = {}
                /\ ~uidLock'
                /\ \/ inCS = {Seeder}
                   \/ \E w \in Workers : inCS = {WorkerId(w)} /\ wpc[w] = "renamed"
       /\ (oldUid' # oldUid /\ oldUid' # <<>>)
             => uidLock /\ inCS = {Driver} /\ oldUid' = <<CacheGet(uidCache, RecRel(Head(toList)).path)>>
       /\ \A w \in Workers :
             wpc'[w] \in {"none", "idle", "exited"} => WorkerId(w) \notin inCS'
       /\ Len(taken') > Len(taken)
             => \A w \in Workers : wpc[w] = "idle" => WorkerId(w) \notin inCS
       /\ pc' = "returned" => ~uidLock']_vars

\* a worker is between Lock and Unlock while handlePageList stands before its
\* own Lock on a record
C32_Witness ==
    /\ \E w \in Workers : inCS = {WorkerId(w)}
    /\ uidLock
    /\ pc = "listing"
    /\ toList # <<>>
    /\ NeedsLock(Head(toList))
    /\ oldUid = <<>>

\* the records of the listing that handlePageList counts: not a marker, with
\* a relative path, not excluded and not the prefix itself
CountedRecords ==
    {i \in 1..Len(listing) :
        ~RecSkipped(exclude, listing[i]) /\ ~RecIsParent(listing[i])}

\* the counters at every point of a Pull and at its return after a listing
\* that succeeded
CountersRight ==
    [][/\ ListAndPruneStep => fileListedCnt' = 0 /\ filePulledCnt' = 0
       /\ filePulledCnt' <= fileListedCnt'
       /\ ReturnsCollected
             => /\ fileListedCnt = Cardinality(CountedRecords)
                /\ filePulledCnt = Cardinality(enqueued)
                /\ metrics'.listed = fileListedCnt
                /\ metrics'.pulled = filePulledCnt
                /\ metrics'.deleted = Cardinality(filesToDelete)]_vars

\* C33: both counters are 0 when the listing starts, filePulledCnt never
\* exceeds fileListedCnt, at the return after a successful listing they are
\* the number of counted records and of enqueued tasks and the deleted gauge
\* is the size of filesToDelete, and no gauge is set in a Pull whose listing
\* failed
C33_CycleCounters ==
    [][/\ ListAndPruneStep => fileListedCnt' = 0 /\ filePulledCnt' = 0
       /\ filePulledCnt' <= fileListedCnt'
       /\ ReturnsCollected
             => /\ fileListedCnt = Cardinality(CountedRecords)
                /\ filePulledCnt = Cardinality(enqueued)
                /\ metrics'.listed = fileListedCnt
                /\ metrics'.pulled = filePulledCnt
                /\ metrics'.deleted = Cardinality(filesToDelete)
       /\ metrics' # metrics => ~listErr']_vars

\* two tasks of this Pull with the same LocalPath
DupTasks ==
    {p \in enqueued \X enqueued : p[1] # p[2] /\ p[1].LocalPath = p[2].LocalPath}

\* C34: when two records of a Pull map to the same LocalPath and both are
\* enqueued, and no I/O operation fails, Pull returns with no message about
\* either task, the file at the LocalPath is the complete body of one of the
\* two objects and the cache entry is the identity of that same object
C34_DuplicateKeys ==
    FaultFreeReturn =>
        \A p \in DupTasks :
            /\ \A i \in 1..Len(pushed) : pushed[i].task \notin {p[1], p[2]}
            /\ \E t \in {p[1], p[2]} :
                  /\ local[t.LocalPath] = BodyOf(t)
                  /\ uidCache[t.UidKey] = t.Uid

\* worker w has the temp file of its task open and not yet renamed
UsesTemp(w) == wpc[w] \in {"opened", "downloaded"}

\* C35: two workers that handle tasks with different LocalPath at the same
\* time have different temp files, a temp file that exists is the one of a
\* LocalPath, and every temp file lies in the working directory, which lies
\* under the local root
C35_TempFilesDistinct ==
    /\ \A w, v \in Workers :
          (UsesTemp(w) /\ UsesTemp(v) /\ wtask[w].LocalPath # wtask[v].LocalPath)
             => tmpfilePath(wtask[w].LocalPath) # tmpfilePath(wtask[v].LocalPath)
    /\ \A w \in Workers :
          UsesTemp(w)
             => /\ Dir(tmpfilePath(wtask[w].LocalPath)) = workingDir
                /\ workingDirExists
    /\ \A p \in DOMAIN tmp : tmp[p] # None => IsUnder(workingDir, p)
    /\ IsUnder(LocalDir, workingDir)

\* two workers have the temp files of two tasks with different LocalPath open
\* at the same time
C35_Witness ==
    \E w, v \in Workers :
        /\ UsesTemp(w)
        /\ UsesTemp(v)
        /\ wtask[w].LocalPath # wtask[v].LocalPath
        /\ tmp[tmpfilePath(wtask[w].LocalPath)] # None
        /\ tmp[tmpfilePath(wtask[v].LocalPath)] # None

\* no worker goroutine is running
NoWorkerRuns == \A w \in Workers : wpc[w] \in {"none", "exited"}

\* C36: a directory disappears only in the step in which Pull calls
\* listAndPruneDir, when no worker runs; a file disappears only in the step
\* in which Pull removes the files of filesToDelete, when every worker of
\* the Pull has exited; and no file removed in that step is the LocalPath of
\* a task a worker placed in this Pull
C36_NoOverlap ==
    [][/\ ~(dirs \subseteq dirs') => pc = "idle" /\ NoWorkerRuns
       /\ (\E f \in LocalPaths : local[f] # None /\ local'[f] = None)
             => /\ ReturnsCollected
                /\ WorkersTerminated
                /\ NoWorkerRuns
       /\ ReturnsCollected
             => /\ \A t \in placed : t.LocalPath \notin removed'
                /\ \A t \in placed : local'[t.LocalPath] # None
                /\ dirs' = dirs]_vars

\* a Pull has returned in which a worker created a directory and placed a
\* file below it and the delete loop removed another file
C36_Witness ==
    /\ pc = "returned"
    /\ removed # {}
    /\ \E t \in placed : t.LocalPath = FileDA /\ local[FileDA] # None
    /\ startState.local[FileDA] = None

\* the cache PopulateChecksum is to leave: the quoted hex MD5 of every
\* regular file under the root that is not excluded and not under an excluded
\* directory, under its relative path, and nothing else
SeededCache ==
    [k \in RelKeys |->
        IF Join(LocalDir, k) \in SurvivingFiles
        THEN Md5Quoted(local[Join(LocalDir, k)])
        ELSE None]

\* the first Pull of the Puller has returned after a listing that succeeded
FirstCycleReturn == pc = "returned" /\ cycle = 1 /\ ~listErr /\ ~EarlyReturn

\* the cache at the call of the Pull held the identity of record i
SeededSame(i) ==
    /\ CacheHas(startState.cache, RecRel(listing[i]).path)
    /\ startState.cache[RecRel(listing[i]).path] = listing[i].ETag

MaxUriLen == 6

UriWords == {"s3:", "", bucket, "home", "a"}

\* every uri of at most MaxUriLen components
UriSamples == UNION {[1..n -> UriWords] : n \in 1..MaxUriLen}

BucketSamples == {bucket, "s3:", ""}

\* where the first "//" of uri ends: the empty component with none before it
FirstHalfEnds(uri) ==
    {i \in 2..(Len(uri) - 1) :
        uri[i] = "" /\ \A j \in 2..(i - 1) : uri[j] # ""}

\* the result the claim gives: the uri splits at its first "//" in two
\* halves, the second half holds a "/", the bucket is the text before that
\* "/" and the key all the text after it
ParsedAsStated(uri) ==
    IF \E i \in FirstHalfEnds(uri) : Len(uri) - i >= 2
    THEN LET i == CHOOSE j \in FirstHalfEnds(uri) : TRUE
         IN  [ok |-> TRUE, bucket |-> uri[i + 1],
              key |-> SubSeq(uri, i + 2, Len(uri))]
    ELSE [ok |-> FALSE, bucket |-> "", key |-> <<>>]

\* parseObjectUri accepts what the claim says and returns what it says
ParsesAsStated == \A uri \in UriSamples : parseObjectUri(uri) = ParsedAsStated(uri)

\* parsing the uri built from a bucket and a key gives back both
RoundTrip ==
    \A b \in BucketSamples : \A k \in AllKeys :
        parseObjectUri(ObjectUri(b, k)) = [ok |-> TRUE, bucket |-> b, key |-> k]

\* the task is the one handlePageList built of record i, and its uri parses
\* to the bucket of the Puller and the key of the record
TaskOfRecord(task, i) ==
    /\ task.Uid = listing[i].ETag
    /\ task.LocalPath = RecLocalPath(listing[i])
    /\ parseObjectUri(task.Uri) =
           [ok |-> TRUE, bucket |-> bucket, key |-> listing[i].Key]

(***************************************************************************)
(* C38 (object uri parsing): parseObjectUri accepts a uri exactly when it  *)
(* splits at its first "//" in two halves and the second half holds a "/", *)
(* and returns the text before that "/" and the text after it; parsing     *)
(* "s3://bucket/key" gives back (bucket, key) for every bucket without "/" *)
(* and every key; the Puller starts a cycle only on a uri that parses; and *)
(* every task enqueued or in the hands of a worker parses to the bucket    *)
(* and the key of a listed record, so that no worker reports an invalid    *)
(* uri.                                                                    *)
(***************************************************************************)
C38_ParseObjectUri ==
    /\ ParsesAsStated
    /\ RoundTrip
    /\ pc \notin {"idle", "returned"} => ParsedAsStated(remoteUri).ok
    /\ \A task \in enqueued : \E i \in DOMAIN listing : TaskOfRecord(task, i)
    /\ \A w \in Workers :
          wpc[w] \in {"opened", "downloaded", "renamed"}
             => \E i \in DOMAIN listing : TaskOfRecord(wtask[w], i)
    /\ \A i \in 1..Len(pushed) : pushed[i].msg.kind # "Got invalid remote uri"

\* a worker has downloaded the object of the key "home//a", whose task uri
\* holds a second "//", and the uris without a key or without "//" are rejected
C38_Witness ==
    /\ ~parseObjectUri(BadRemoteUri).ok
    /\ ~parseObjectUri(NoAuthorityUri).ok
    /\ \E w \in Workers :
          /\ wpc[w] = "downloaded"
          /\ wtask[w].Uri = ObjectUri(bucket, KeyDupA)
          /\ wtask[w] \notin dlFailed
          /\ wfd[w] = "tmp"
          /\ tmp[tmpfilePath(wtask[w].LocalPath)] = ObjectBody(remote[KeyDupA])
====
